---- MODULE Spec2Model ----
(***************************************************************************)
(* Model of the answer evaluation engine of ASAG-AGENT-FRENCH:             *)
(*   app/utils/text_utils.py            normalize_text, check_grammar      *)
(*   app/modules/evaluation/semantic_matcher.py   SemanticMatcher          *)
(*   app/modules/evaluation/answer_analyzer.py    AnswerAnalyzer           *)
(* Python floats are modelled as exact rationals <<numerator, denominator>>*)
(* in lowest terms; texts are sequences of one-character strings.          *)
(***************************************************************************)
EXTENDS Integers, Sequences, FiniteSets, TLC

\* ------------------------------------------------------------------------
\* Exact rational arithmetic standing for Python float arithmetic
\* ------------------------------------------------------------------------
Abs(n) == IF n < 0 THEN -n ELSE n

RECURSIVE Gcd(_, _)
Gcd(a, b) == IF b = 0 THEN a ELSE Gcd(b, a % b)

Rat(n, d) ==
    LET g == Gcd(Abs(n), d)
    IN  <<n \div g, d \div g>>

RAdd(a, b) == Rat(a[1] * b[2] + b[1] * a[2], a[2] * b[2])
RSub(a, b) == Rat(a[1] * b[2] - b[1] * a[2], a[2] * b[2])
RMul(a, b) == Rat(a[1] * b[1], a[2] * b[2])
RDiv(a, b) == IF b[1] > 0 THEN Rat(a[1] * b[2], a[2] * b[1])
                          ELSE Rat(-(a[1] * b[2]), a[2] * (-b[1]))
RLeq(a, b) == a[1] * b[2] <= b[1] * a[2]
RLt(a, b)  == a[1] * b[2] < b[1] * a[2]
RGeq(a, b) == RLeq(b, a)
\* Python min(a, b) returns a unless b < a; max(a, b) returns a unless b > a
RMin(a, b) == IF RLt(b, a) THEN b ELSE a
RMax(a, b) == IF RLt(a, b) THEN b ELSE a

Zero == Rat(0, 1)
One  == Rat(1, 1)
Half == Rat(1, 2)

\* ------------------------------------------------------------------------
\* Characters and str methods used by the code
\* ------------------------------------------------------------------------
LowerLetters  == {"a", "e", "g", "i", "l", "n", "t", "u", "v"}
UpperLetters  == {"E", "L"}
AccentLetters == {"è", "é"}
SpaceChars    == {" "}
PunctChars    == {".", "!", "'"}

\* str.lower() on one character
LowerChar(c) == CASE c = "E" -> "e"
                  [] c = "L" -> "l"
                  [] OTHER   -> c

\* \w of the re module on str patterns: letters (accented ones included)
IsWordChar(c) == c \in LowerLetters \cup UpperLetters \cup AccentLetters
IsSpaceChar(c) == c \in SpaceChars
IsUpperChar(c) == c \in UpperLetters

\* unicodedata.normalize('NFKD', c).encode('ASCII', 'ignore').decode('ASCII')
AsciiFold(c) == CASE c = "è" -> <<"e">>
                  [] c = "é" -> <<"e">>
                  [] OTHER   -> <<c>>

MapLower(s) == [k \in 1..Len(s) |-> LowerChar(s[k])]

\* re.sub(r'[^\w\s]', ' ', text)
PunctToSpace(s) ==
    [k \in 1..Len(s) |-> IF IsWordChar(s[k]) \/ IsSpaceChar(s[k]) THEN s[k] ELSE " "]

RECURSIVE FoldAccents(_)
FoldAccents(s) == IF s = <<>> THEN <<>> ELSE AsciiFold(Head(s)) \o FoldAccents(Tail(s))

\* str.strip()
RECURSIVE LStrip(_)
LStrip(s) == IF s # <<>> /\ IsSpaceChar(Head(s)) THEN LStrip(Tail(s)) ELSE s

RECURSIVE RStrip(_)
RStrip(s) == IF s # <<>> /\ IsSpaceChar(s[Len(s)])
             THEN RStrip(SubSeq(s, 1, Len(s) - 1)) ELSE s

Strip(s) == RStrip(LStrip(s))

\* re.sub(r'\s+', ' ', text)
RECURSIVE CollapseSpaces(_)
CollapseSpaces(s) ==
    IF s = <<>> THEN <<>>
    ELSE IF IsSpaceChar(Head(s))
         THEN <<" ">> \o CollapseSpaces(LStrip(Tail(s)))
         ELSE <<Head(s)>> \o CollapseSpaces(Tail(s))

\* len(text.split()): number of maximal runs of non-space characters
RECURSIVE WordCount(_)
WordCount(s) ==
    IF s = <<>> THEN 0
    ELSE IF IsSpaceChar(Head(s)) THEN WordCount(Tail(s))
    ELSE IF Len(s) = 1 \/ IsSpaceChar(s[2]) THEN 1 + WordCount(Tail(s))
    ELSE WordCount(Tail(s))

\* a in b for str
Contains(b, a) ==
    \E i \in 0..(Len(b) - Len(a)) : SubSeq(b, i + 1, i + Len(a)) = a

normalize_text(text) ==
    IF text = <<>> THEN <<>>
    ELSE Strip(CollapseSpaces(FoldAccents(PunctToSpace(MapLower(text)))))


\* ------------------------------------------------------------------------
\* app/utils/text_utils.py : check_grammar
\* ------------------------------------------------------------------------
\* absent value (Python None / key not in dict); no rational has denominator 0
None == <<0, 0>>

EndsWithPunct(s) == s # <<>> /\ s[Len(s)] \in {".", "!", "?"}

\* text.strip()[0] raises IndexError when the stripped text is empty
GrammarRaises(text) == text # <<>> /\ Strip(text) = <<>>

GrammarIssues(text) ==
    IF text = <<>> THEN <<"vide">>
    ELSE (IF ~EndsWithPunct(Strip(text)) THEN <<"point">> ELSE <<>>)
      \o (IF ~IsUpperChar(Strip(text)[1]) THEN <<"majuscule">> ELSE <<>>)
      \o (IF WordCount(text) < 3 THEN <<"courte">> ELSE <<>>)

GrammarScore(text) ==
    IF text = <<>> THEN Zero
    ELSE LET s1 == IF ~EndsWithPunct(Strip(text)) THEN RSub(One, Rat(1, 10)) ELSE One
             s2 == IF ~IsUpperChar(Strip(text)[1]) THEN RSub(s1, Rat(1, 10)) ELSE s1
             s3 == IF WordCount(text) < 3 THEN RSub(s2, Rat(2, 10)) ELSE s2
         IN  RMax(Zero, RMin(One, s3))

\* the grade argument is accepted and not read by the body
check_grammar(text, grade) ==
    IF GrammarRaises(text)
    THEN [raised |-> TRUE, issues |-> <<>>, score |-> None]
    ELSE [raised |-> FALSE, issues |-> GrammarIssues(text), score |-> GrammarScore(text)]

\* ------------------------------------------------------------------------
\* Provider responses.  A response of LLMClient.generate_text is a sequence
\* of whitespace-separated tokens; a token is a number [num |-> r] or a
\* word [num |-> None].
\* ------------------------------------------------------------------------
Num(n, d) == [num |-> Rat(n, d)]
Word      == [num |-> None]

\* float(response.strip()): succeeds only when the whole response is one number
ParseFloat(response) ==
    IF Len(response) = 1 /\ response[1].num # None THEN response[1].num ELSE None

\* outcome of one provider call: the call raised, or it returned resp
Failed      == [ok |-> FALSE, resp |-> <<>>]
Returned(r) == [ok |-> TRUE, resp |-> r]

\* ------------------------------------------------------------------------
\* app/modules/evaluation/semantic_matcher.py
\* ------------------------------------------------------------------------
\* variant: the parsed score is returned as it is, without max(0, min(1, .))
ScoreFromResponse_unclamped(response) ==
    IF ParseFloat(response) = None THEN Half ELSE ParseFloat(response)

\* try: float(...); max(0, min(1, score))  except ValueError: 0.5
ScoreFromResponse(response) ==
    IF ParseFloat(response) = None THEN Half
    ELSE RMax(Zero, RMin(One, ParseFloat(response)))

\* variant: a failed provider call counts as "absent" (0.0)
check_element_presence_zero(outcome) ==
    IF ~outcome.ok THEN Zero ELSE ScoreFromResponse(outcome.resp)

check_element_presence(outcome) ==
    IF ~outcome.ok THEN Half ELSE ScoreFromResponse(outcome.resp)

\* variant: an unparsable response counts as "different" (0.0)
_compute_llm_similarity_zero(response) ==
    IF ParseFloat(response) = None THEN Zero ELSE ScoreFromResponse(response)

_compute_llm_similarity(response) == ScoreFromResponse(response)

\* variant: the two weights are exchanged
final_similarity_swapped(embedding_similarity, llm_similarity) ==
    RAdd(RMul(embedding_similarity, Rat(7, 10)), RMul(llm_similarity, Rat(3, 10)))

\* final_similarity = embedding_similarity * 0.3 + llm_similarity * 0.7
final_similarity(embedding_similarity, llm_similarity) ==
    RAdd(RMul(embedding_similarity, Rat(3, 10)), RMul(llm_similarity, Rat(7, 10)))

\* ------------------------------------------------------------------------
\* app/modules/evaluation/answer_analyzer.py : pure parts
\* ------------------------------------------------------------------------
SemanticThreshold == Rat(8, 10)

DefaultWeights == [key_elements |-> Rat(7, 10), grammar |-> Rat(3, 10)]

\* a scoring rubric is a dict; keys is the set of keys it has
HasKey(rubric, k) == k \in rubric.keys

\* variant: the rubric's weights are not read, the defaults always apply
_calculate_score_default_weights(key_elements_score, grammar_score, scoring_rubric) ==
    LET weights == DefaultWeights
        weighted_score == RAdd(RMul(key_elements_score, weights.key_elements),
                               RMul(grammar_score, weights.grammar))
    IN  IF HasKey(scoring_rubric, "score_multiplier")
        THEN RMul(weighted_score, scoring_rubric.score_multiplier)
        ELSE weighted_score

_calculate_score(key_elements_score, grammar_score, scoring_rubric) ==
    LET weights == IF HasKey(scoring_rubric, "weights")
                   THEN scoring_rubric.weights ELSE DefaultWeights
        weighted_score == RAdd(RMul(key_elements_score, weights.key_elements),
                               RMul(grammar_score, weights.grammar))
    IN  IF HasKey(scoring_rubric, "score_multiplier")
        THEN RMul(weighted_score, scoring_rubric.score_multiplier)
        ELSE weighted_score

\* variant: strict comparison against 60% of the minimum
_determine_status_strict(score, minimum_score, max_score) ==
    IF RGeq(score, minimum_score)
    THEN IF RGeq(score, RMul(max_score, Rat(9, 10))) THEN "excellent"
         ELSE IF RGeq(score, RMul(max_score, Rat(75, 100))) THEN "correct"
         ELSE "acceptable"
    ELSE IF RLt(RMul(minimum_score, Rat(6, 10)), score) THEN "partially_correct"
         ELSE "incorrect"

\* variant: the 75% test comes before the 90% test with its own label
_determine_status_swapped(score, minimum_score, max_score) ==
    IF RGeq(score, minimum_score)
    THEN IF RGeq(score, RMul(max_score, Rat(9, 10))) THEN "correct"
         ELSE IF RGeq(score, RMul(max_score, Rat(75, 100))) THEN "excellent"
         ELSE "acceptable"
    ELSE IF RGeq(score, RMul(minimum_score, Rat(6, 10))) THEN "partially_correct"
         ELSE "incorrect"

_determine_status(score, minimum_score, max_score) ==
    IF RGeq(score, minimum_score)
    THEN IF RGeq(score, RMul(max_score, Rat(9, 10))) THEN "excellent"
         ELSE IF RGeq(score, RMul(max_score, Rat(75, 100))) THEN "correct"
         ELSE "acceptable"
    ELSE IF RGeq(score, RMul(minimum_score, Rat(6, 10))) THEN "partially_correct"
         ELSE "incorrect"


\* ------------------------------------------------------------------------
\* Inputs of one evaluation
\* ------------------------------------------------------------------------
\* longest keyElements list of a template
MaxKeyElements == 2

TxtEmpty == <<>>
TxtBlank == <<" ">>
\* "eau"
TxtEau   == <<"e", "a", "u">>
\* "nuage"
TxtNuage == <<"n", "u", "a", "g", "e">>
\* "L'Eau gèle vite."
TxtFull  == <<"L", "'", "E", "a", "u", " ", "g", "è", "l", "e", " ",
              "v", "i", "t", "e", ".">>
\* "L'Eau gèle vite"
TxtNoPeriod == SubSeq(TxtFull, 1, 15)
\* "L'eau gèle."
TxtModel == <<"L", "'", "e", "a", "u", " ", "g", "è", "l", "e", ".">>

AnswerTexts    == {TxtEmpty, TxtBlank, TxtEau, TxtFull}
KeyElementPool == {TxtEau, TxtNuage}
KeyElementLists == UNION {[1..n -> KeyElementPool] : n \in 0..MaxKeyElements}

NoWeights == [key_elements |-> None, grammar |-> None]
WeightChoices     == {NoWeights, [key_elements |-> One, grammar |-> Half]}
MultiplierChoices == {None, Rat(10, 1), Rat(-1, 1)}

Rubric(w, m) ==
    [keys |-> (IF w = NoWeights THEN {} ELSE {"weights"})
              \cup (IF m = None THEN {} ELSE {"score_multiplier"}),
     weights |-> w, score_multiplier |-> m]

Rubrics == {Rubric(w, m) : w \in WeightChoices, m \in MultiplierChoices}

MaxScores     == {0, 10}
MinimumScores == {Rat(6, 1)}
Grades        == {"CE2", "CM2"}

\* what the language model may do on a check_element_presence prompt
PresenceOutcomes ==
    {Failed, Returned(<<Num(17, 20)>>), Returned(<<Num(4, 5)>>),
     Returned(<<Word, Num(9, 10)>>)}

\* what the embedding provider may do: raise, or yield a similarity
EmbeddingFailed == [ok |-> FALSE, val |-> None]
EmbeddingOutcomes == {EmbeddingFailed, [ok |-> TRUE, val |-> Rat(9, 10)]}

\* what the language model may do on the similarity prompt
SimilarityOutcomes ==
    {Failed, Returned(<<Num(4, 5)>>), Returned(<<Num(3, 2)>>), Returned(<<Word>>)}

\* ------------------------------------------------------------------------
\* State
\* ------------------------------------------------------------------------
VARIABLES
    student_answer,      \* [answerText]
    question,            \* [maxScore, grade]
    answer_template,     \* [keyElements, scoringRubric, minimumScore,
                         \*  requiresGrammarCheck, modelAnswer]
    pc,                  \* position inside analyze_answer
    analysis_result,     \* the dict analyze_answer builds and returns
    i,                   \* index of the key element the loop is at
    found_elements,      \* locals of _check_key_elements
    missing_elements,
    raw_score,           \* local raw_score of analyze_answer (_calculate_score result)
    embedding_similarity,\* local of compute_similarity
    exception,           \* exception raised out of analyze_answer, or "none"
    presence_calls,      \* calls of check_element_presence, in order
    grammar_calls,       \* calls of check_grammar, in order
    provider_calls,      \* calls of the embedding and language-model providers
    sArgs,               \* arguments of _determine_status (status specification)
    sOut,                \* its results
    feedback_type,       \* locals of generate_feedback
    feedback_content,
    text_calls,          \* calls of llm_client.generate_text made by generate_feedback
    feedback,            \* the FeedbackCreate generate_feedback returns
    db,                  \* the four collections the services read and write
    submit,              \* locals of the submit_answer call that is running
    suspended            \* the other submit_answer call, waiting at an await

analyzeVars == <<student_answer, question, answer_template, pc, analysis_result, i,
                 found_elements, missing_elements, raw_score, embedding_similarity,
                 exception, presence_calls, grammar_calls, provider_calls>>
statusVars  == <<sArgs, sOut>>
feedbackVars == <<feedback_type, feedback_content, text_calls, feedback>>
serviceVars == <<db, submit, suspended>>
otherVars   == <<statusVars, feedbackVars, serviceVars>>
vars == <<analyzeVars, statusVars, feedbackVars, serviceVars>>

\* analysis_result as initialised at the top of analyze_answer
InitialResult(q) ==
    [raw_score |-> Zero, max_score |-> q.maxScore, percentage_score |-> Zero,
     status |-> "incorrect", key_elements_found |-> <<>>,
     key_elements_missing |-> <<>>, grammar_issues |-> <<>>,
     key_elements_score |-> None, grammar_score |-> None,
     semantic_similarity |-> None]

StatusIdle == sArgs = <<>> /\ sOut = <<>>

\* a feedback text: what the provider wrote, or the sentence of the except branch
\* of _generate_feedback_content with the two values its f-string interpolates
Content(text) == [text |-> text, score |-> None, max_score |-> 0]
NoContent == Content("unset")

NoDetails ==
    [score |-> None, maxScore |-> 0, percentage |-> None, status |-> "unset",
     keyElementsFound |-> <<>>, keyElementsMissing |-> <<>>, grammarIssues |-> <<>>]

\* before generate_feedback has returned
NoFeedback ==
    [feedbackContent |-> NoContent, correctionDetails |-> NoDetails,
     suggestedImprovements |-> <<>>, positivePoints |-> <<>>,
     feedbackType |-> "unset"]

FeedbackIdle ==
    /\ feedback_type = "unset"
    /\ feedback_content = NoContent
    /\ text_calls = <<>>
    /\ feedback = NoFeedback

\* the collections open_questions, answer_templates, student_answers and
\* feedbacks; the _id of a document is its position in its collection
EmptyDb == [questions |-> <<>>, templates |-> <<>>, answers |-> <<>>, feedbacks |-> <<>>]

\* the request body of POST /submit, a StudentAnswerCreate
NoAnswerIn ==
    [studentId |-> 0, questionId |-> 0, answerText |-> TxtEmpty,
     scoreObtained |-> Zero, answerStatus |-> "pending", attemptNumber |-> 1]

\* no submit_answer call: step is the position inside submit_answer, http the
\* status code of the route once the call is over
NoCall ==
    [step |-> "idle", answer_in |-> NoAnswerIn, previous_attempts |-> 0,
     answer_id |-> 0, http |-> 0]

\* the locals of a call that has not started
IdleFrame ==
    [student_answer |-> [answerText |-> TxtEmpty],
     question |-> [maxScore |-> 0, grade |-> "CE2"],
     answer_template |-> [keyElements |-> <<>>, scoringRubric |-> Rubric(NoWeights, None),
                          minimumScore |-> Zero, requiresGrammarCheck |-> FALSE,
                          modelAnswer |-> TxtModel],
     pc |-> "idle",
     analysis_result |-> InitialResult([maxScore |-> 0]),
     i |-> 1, found_elements |-> <<>>, missing_elements |-> <<>>,
     raw_score |-> None, embedding_similarity |-> None,
     exception |-> "none", presence_calls |-> <<>>, grammar_calls |-> <<>>,
     provider_calls |-> <<>>, feedback_type |-> "unset",
     feedback_content |-> NoContent, text_calls |-> <<>>, feedback |-> NoFeedback,
     submit |-> NoCall]

ServiceIdle ==
    /\ db = EmptyDb
    /\ submit = NoCall
    /\ suspended = IdleFrame

Init ==
    /\ student_answer \in [answerText : AnswerTexts]
    /\ question \in [maxScore : MaxScores, grade : Grades]
    /\ answer_template \in [keyElements : KeyElementLists, scoringRubric : Rubrics,
                            minimumScore : MinimumScores,
                            requiresGrammarCheck : BOOLEAN, modelAnswer : {TxtModel}]
    /\ pc = "key_elements"
    /\ analysis_result = InitialResult(question)
    /\ i = 1
    /\ found_elements = <<>>
    /\ missing_elements = <<>>
    /\ raw_score = None
    /\ embedding_similarity = None
    /\ exception = "none"
    /\ presence_calls = <<>>
    /\ grammar_calls = <<>>
    /\ provider_calls = <<>>
    /\ StatusIdle
    /\ FeedbackIdle
    /\ ServiceIdle

inputs == <<student_answer, question, answer_template>>

\* analyze_answer is entered: its locals as Init sets them
AnalyzeEntry ==
    /\ pc = "key_elements"
    /\ analysis_result = InitialResult(question)
    /\ i = 1
    /\ found_elements = <<>>
    /\ missing_elements = <<>>
    /\ raw_score = None
    /\ embedding_similarity = None
    /\ exception = "none"
    /\ presence_calls = <<>>
    /\ grammar_calls = <<>>
    /\ provider_calls = <<>>

\* ------------------------------------------------------------------------
\* analyze_answer, step 1 : _check_key_elements
\* ------------------------------------------------------------------------
key_elements == answer_template.keyElements

LiteralMatch(element) ==
    Contains(normalize_text(student_answer.answerText), normalize_text(element))

\* if not key_elements: return {"found": [], "missing": [], "score": 1.0}
KeyElementsEmpty ==
    /\ pc = "key_elements"
    /\ key_elements = <<>>
    /\ analysis_result' = [analysis_result EXCEPT !.key_elements_score = One]
    /\ pc' = "grammar"
    /\ UNCHANGED <<inputs, i, found_elements, missing_elements, raw_score,
                   embedding_similarity, exception, presence_calls, grammar_calls,
                   provider_calls, otherVars>>

\* one loop iteration whose literal containment test succeeds
ElementLiteral ==
    /\ pc = "key_elements"
    /\ i <= Len(key_elements)
    /\ LiteralMatch(key_elements[i])
    /\ found_elements' = Append(found_elements, key_elements[i])
    /\ i' = i + 1
    /\ UNCHANGED <<inputs, pc, analysis_result, missing_elements, raw_score,
                   embedding_similarity, exception, presence_calls, grammar_calls,
                   provider_calls, otherVars>>

\* variant: strict threshold
ElementFound_strict(similarity) == RLt(SemanticThreshold, similarity)

\* if similarity >= 0.8
ElementFound(similarity) == RGeq(similarity, SemanticThreshold)

\* one loop iteration whose literal test fails: check_element_presence is awaited
ElementPresence(outcome) ==
    /\ pc = "key_elements"
    /\ i <= Len(key_elements)
    /\ ~LiteralMatch(key_elements[i])
    /\ LET similarity == check_element_presence(outcome)
       IN  /\ presence_calls' = Append(presence_calls,
                   [index |-> i, text |-> student_answer.answerText,
                    element |-> key_elements[i], outcome |-> outcome,
                    returned |-> similarity])
           /\ IF ElementFound(similarity)
              THEN /\ found_elements' = Append(found_elements, key_elements[i])
                   /\ UNCHANGED missing_elements
              ELSE /\ missing_elements' = Append(missing_elements, key_elements[i])
                   /\ UNCHANGED found_elements
    /\ i' = i + 1
    /\ UNCHANGED <<inputs, pc, analysis_result, raw_score, embedding_similarity,
                   exception, grammar_calls, provider_calls, otherVars>>

\* variant: the proportion is taken over the elements found plus one
CoverageScore_off_by_one(found, keys) ==
    IF Len(keys) > 0 THEN Rat(Len(found), Len(found) + 1) ELSE One

\* score = len(found_elements) / len(key_elements)
CoverageScore(found, keys) ==
    IF Len(keys) > 0 THEN Rat(Len(found), Len(keys)) ELSE One

\* end of the loop: the score, and the copy into analysis_result
KeyElementsReturn ==
    /\ pc = "key_elements"
    /\ key_elements # <<>>
    /\ i > Len(key_elements)
    /\ analysis_result' =
          [analysis_result EXCEPT
             !.key_elements_found = found_elements,
             !.key_elements_missing = missing_elements,
             !.key_elements_score = CoverageScore(found_elements, key_elements)]
    /\ pc' = "grammar"
    /\ UNCHANGED <<inputs, i, found_elements, missing_elements, raw_score,
                   embedding_similarity, exception, presence_calls, grammar_calls,
                   provider_calls, otherVars>>


\* ------------------------------------------------------------------------
\* analyze_answer, step 2 : grammar
\* ------------------------------------------------------------------------
\* variant: the grammar check runs whatever the template says
GrammarRequired_always == TRUE

\* if answer_template.requiresGrammarCheck
GrammarRequired == answer_template.requiresGrammarCheck

GrammarCheck ==
    /\ pc = "grammar"
    /\ GrammarRequired
    /\ grammar_calls' = Append(grammar_calls,
            [text |-> student_answer.answerText, grade |-> question.grade])
    /\ LET grammar_results == check_grammar(student_answer.answerText, question.grade)
       IN  IF grammar_results.raised
           THEN /\ exception' = "IndexError"
                /\ pc' = "raised"
                /\ UNCHANGED analysis_result
           ELSE /\ analysis_result' =
                      [analysis_result EXCEPT
                         !.grammar_issues = grammar_results.issues,
                         !.grammar_score = grammar_results.score]
                /\ pc' = "score"
                /\ UNCHANGED exception
    /\ UNCHANGED <<inputs, i, found_elements, missing_elements, raw_score,
                   embedding_similarity, presence_calls, provider_calls, otherVars>>

GrammarSkip ==
    /\ pc = "grammar"
    /\ ~GrammarRequired
    /\ analysis_result' = [analysis_result EXCEPT !.grammar_score = One]
    /\ pc' = "score"
    /\ UNCHANGED <<inputs, i, found_elements, missing_elements, raw_score,
                   embedding_similarity, exception, presence_calls, grammar_calls,
                   provider_calls, otherVars>>

\* ------------------------------------------------------------------------
\* analyze_answer, steps 3 and 4 : score, percentage, status
\* ------------------------------------------------------------------------
\* variant: the score is multiplied by maxScore before the cap
CappedScore_scaled(score, maxScore) ==
    RMin(RMul(score, Rat(maxScore, 1)), Rat(maxScore, 1))

\* analysis_result["raw_score"] = min(raw_score, question.maxScore)
CappedScore(score, maxScore) == RMin(score, Rat(maxScore, 1))

\* (raw_score / maxScore) * 100
Percentage(score, maxScore) == RMul(RDiv(score, Rat(maxScore, 1)), Rat(100, 1))

CalculateScore ==
    /\ pc = "score"
    /\ LET score == _calculate_score(analysis_result.key_elements_score,
                                     analysis_result.grammar_score,
                                     answer_template.scoringRubric)
           capped == CappedScore(score, question.maxScore)
       IN  /\ raw_score' = score
           /\ IF question.maxScore = 0
              THEN /\ analysis_result' = [analysis_result EXCEPT !.raw_score = capped]
                   /\ exception' = "ZeroDivisionError"
                   /\ pc' = "raised"
              ELSE /\ analysis_result' =
                         [analysis_result EXCEPT
                            !.raw_score = capped,
                            !.percentage_score = Percentage(capped, question.maxScore),
                            !.status = _determine_status(capped,
                                          answer_template.minimumScore,
                                          Rat(question.maxScore, 1))]
                   /\ pc' = "similarity"
                   /\ UNCHANGED exception
    /\ UNCHANGED <<inputs, i, found_elements, missing_elements, embedding_similarity,
                   presence_calls, grammar_calls, provider_calls, otherVars>>

\* ------------------------------------------------------------------------
\* analyze_answer, step 5 : SemanticMatcher.compute_similarity
\* ------------------------------------------------------------------------
\* await embedding_processor.compute_cosine_similarity(text1, text2)
EmbeddingCall(outcome) ==
    /\ pc = "similarity"
    /\ provider_calls' = Append(provider_calls, [provider |-> "embedding", ok |-> outcome.ok,
                                        resp |-> <<>>])
    /\ IF outcome.ok
       THEN /\ embedding_similarity' = outcome.val
            /\ pc' = "llm_similarity"
            /\ UNCHANGED analysis_result
       ELSE \* except Exception: return 0.5
            /\ analysis_result' = [analysis_result EXCEPT !.semantic_similarity = Half]
            /\ pc' = "done"
            /\ UNCHANGED embedding_similarity
    /\ UNCHANGED <<inputs, i, found_elements, missing_elements, raw_score, exception,
                   presence_calls, grammar_calls, otherVars>>

\* await self._compute_llm_similarity(text1, text2), then the weighted mean
LLMSimilarityCall(outcome) ==
    /\ pc = "llm_similarity"
    /\ provider_calls' = Append(provider_calls, [provider |-> "llm", ok |-> outcome.ok,
                                        resp |-> outcome.resp])
    /\ analysis_result' =
          [analysis_result EXCEPT !.semantic_similarity =
              IF outcome.ok
              THEN final_similarity(embedding_similarity,
                                    _compute_llm_similarity(outcome.resp))
              ELSE Half]
    /\ pc' = "done"
    /\ UNCHANGED <<inputs, i, found_elements, missing_elements, raw_score,
                   embedding_similarity, exception, presence_calls, grammar_calls,
                   otherVars>>

Next ==
    \/ KeyElementsEmpty
    \/ ElementLiteral
    \/ \E outcome \in PresenceOutcomes : ElementPresence(outcome)
    \/ KeyElementsReturn
    \/ GrammarCheck
    \/ GrammarSkip
    \/ CalculateScore
    \/ \E outcome \in EmbeddingOutcomes : EmbeddingCall(outcome)
    \/ \E outcome \in SimilarityOutcomes : LLMSimilarityCall(outcome)

Spec == Init /\ [][Next]_vars

TypeOK ==
    /\ pc \in {"key_elements", "grammar", "score", "similarity", "llm_similarity",
               "done", "raised", "feedback_content", "extraction",
               "feedback_returned"}
    /\ exception \in {"none", "IndexError", "ZeroDivisionError"}
    /\ (pc = "raised") = (exception # "none")


\* ------------------------------------------------------------------------
\* _determine_status on its own: the function applied to two scores lo <= hi
\* under the same minimum_score and max_score
\* ------------------------------------------------------------------------
\* scores -3.0, -2.5, ..., 11.0 and the thresholds 3.6 and 2.4
StatusScores == {Rat(k, 2) : k \in -6..22} \cup {Rat(18, 5), Rat(12, 5)}
StatusMinimumScores == {Rat(-2, 1), Zero, Rat(4, 1), Rat(6, 1), Rat(19, 2)}
StatusMaxScores == {4, 10}

AnalyzeIdle ==
    /\ student_answer = [answerText |-> TxtEmpty]
    /\ question = [maxScore |-> 0, grade |-> "CE2"]
    /\ answer_template = [keyElements |-> <<>>, scoringRubric |-> Rubric(NoWeights, None),
                          minimumScore |-> Zero, requiresGrammarCheck |-> FALSE,
                          modelAnswer |-> TxtModel]
    /\ pc = "idle"
    /\ analysis_result = InitialResult(question)
    /\ i = 1
    /\ found_elements = <<>>
    /\ missing_elements = <<>>
    /\ raw_score = None
    /\ embedding_similarity = None
    /\ exception = "none"
    /\ presence_calls = <<>>
    /\ grammar_calls = <<>>
    /\ provider_calls = <<>>

StatusInit ==
    /\ AnalyzeIdle
    /\ FeedbackIdle
    /\ ServiceIdle
    /\ sArgs \in {a \in [lo : StatusScores, hi : StatusScores,
                         minimum_score : StatusMinimumScores,
                         max_score : StatusMaxScores] : RLeq(a.lo, a.hi)}
    /\ sOut = [lo |-> "none", hi |-> "none"]

DetermineStatusLo ==
    /\ sOut.lo = "none"
    /\ sOut' = [sOut EXCEPT !.lo = _determine_status(sArgs.lo, sArgs.minimum_score,
                                                     Rat(sArgs.max_score, 1))]
    /\ UNCHANGED <<sArgs, analyzeVars, feedbackVars, serviceVars>>

DetermineStatusHi ==
    /\ sOut.hi = "none"
    /\ sOut' = [sOut EXCEPT !.hi = _determine_status(sArgs.hi, sArgs.minimum_score,
                                                     Rat(sArgs.max_score, 1))]
    /\ UNCHANGED <<sArgs, analyzeVars, feedbackVars, serviceVars>>

StatusNext == DetermineStatusLo \/ DetermineStatusHi

StatusSpec == StatusInit /\ [][StatusNext]_vars

\* ------------------------------------------------------------------------
\* analyze_answer on the templates of the end-to-end scoring scenarios:
\* maxScore 10, minimumScore 6, every rubric, answers with and without a
\* final period
\* ------------------------------------------------------------------------
ScenarioKeyElementLists == {<<>>, <<TxtNuage>>, <<TxtEau, TxtNuage>>}

ScenarioInit ==
    /\ student_answer \in [answerText : {TxtFull, TxtNoPeriod}]
    /\ question = [maxScore |-> 10, grade |-> "CE2"]
    /\ answer_template \in [keyElements : ScenarioKeyElementLists,
                            scoringRubric : Rubrics,
                            minimumScore : {Rat(6, 1)},
                            requiresGrammarCheck : BOOLEAN, modelAnswer : {TxtModel}]
    /\ AnalyzeEntry
    /\ StatusIdle
    /\ FeedbackIdle
    /\ ServiceIdle

ScenarioSpec == ScenarioInit /\ [][Next]_vars

\* ------------------------------------------------------------------------
\* SemanticMatcher under every kind of provider answer: analyze_answer on a
\* few templates, the language model answering with numbers inside and
\* outside [0, 1], with text, with nothing, or not at all
\* ------------------------------------------------------------------------
MatcherResponses ==
    {<<Num(17, 20)>>, <<Num(4, 5)>>, <<Num(3, 2)>>, <<Num(-1, 2)>>, <<Num(0, 1)>>,
     <<Num(1, 1)>>, <<Word>>, <<>>, <<Word, Num(9, 10)>>}

MatcherPresenceOutcomes   == {Failed} \cup {Returned(r) : r \in MatcherResponses}
MatcherSimilarityOutcomes == {Failed} \cup {Returned(r) : r \in MatcherResponses}

\* (cosine + 1) / 2 of the two embeddings lies in [0, 1]
MatcherEmbeddingOutcomes ==
    {EmbeddingFailed} \cup
    {[ok |-> TRUE, val |-> v] : v \in {Zero, Rat(9, 10), One}}

MatcherKeyElementLists == {<<>>, <<TxtEau>>, <<TxtNuage, TxtNuage>>}

MatcherInit ==
    /\ Init
    /\ student_answer.answerText \in {TxtEau, TxtFull}
    /\ question = [maxScore |-> 10, grade |-> "CE2"]
    /\ answer_template.keyElements \in MatcherKeyElementLists
    /\ answer_template.scoringRubric = Rubric(NoWeights, None)

MatcherNext ==
    \/ KeyElementsEmpty
    \/ ElementLiteral
    \/ \E outcome \in MatcherPresenceOutcomes : ElementPresence(outcome)
    \/ KeyElementsReturn
    \/ GrammarCheck
    \/ GrammarSkip
    \/ CalculateScore
    \/ \E outcome \in MatcherEmbeddingOutcomes : EmbeddingCall(outcome)
    \/ \E outcome \in MatcherSimilarityOutcomes : LLMSimilarityCall(outcome)

MatcherSpec == MatcherInit /\ [][MatcherNext]_vars


\* ------------------------------------------------------------------------
\* app/modules/evaluation/feedback_generator.py
\* ------------------------------------------------------------------------
\* variant: an acceptable answer gets the corrective register
_determine_feedback_type_acceptable_corrective(status) ==
    IF status \in {"excellent", "correct"} THEN "encouragement"
    ELSE IF status = "acceptable" THEN "correctif"
    ELSE IF status = "partially_correct" THEN "correctif"
    ELSE "explicatif"

_determine_feedback_type(status) ==
    IF status \in {"excellent", "correct"} THEN "encouragement"
    ELSE IF status = "acceptable" THEN "nuancé"
    ELSE IF status = "partially_correct" THEN "correctif"
    ELSE "explicatif"

\* the feedback_elements dict, as far as the generator reads it
FeedbackElements(result) ==
    [score |-> result.raw_score, max_score |-> result.max_score,
     percentage |-> result.percentage_score, status |-> result.status,
     key_elements_found |-> result.key_elements_found,
     key_elements_missing |-> result.key_elements_missing,
     grammar_issues |-> result.grammar_issues]

\* f"Bravo pour ton effort ! Tu as obtenu {score}/{max_score} points. Continue ..."
FallbackContent(elements) ==
    [text |-> "Bravo pour ton effort ! Tu as obtenu {score}/{max_score} points. Continue à t'améliorer !",
     score |-> elements.score, max_score |-> elements.max_score]

\* the prompt of _generate_feedback_content: one of four texts, chosen by
\* feedback_type (the else branch serves "explicatif" and anything else)
ContentPrompt(type) ==
    [kind |-> "content",
     template |-> IF type \in {"encouragement", "nuancé", "correctif"}
                  THEN type ELSE "explicatif",
     feedback_content |-> NoContent]

\* variant: the extraction prompt is built before the content is known
ExtractionPrompt_without_content(content) ==
    [kind |-> "extraction", template |-> "extraction", feedback_content |-> NoContent]

\* the prompt of _extract_suggestions_and_positives embeds feedback_content
ExtractionPrompt(content) ==
    [kind |-> "extraction", template |-> "extraction", feedback_content |-> content]

\* what the provider may do on the content prompt: raise, or return a text,
\* which LLMClient strips and which may then be empty
ContentFailed      == [ok |-> FALSE, text |-> ""]
ContentReturned(t) == [ok |-> TRUE, text |-> t]

\* one list item: a text, and the key elements an f-string joins into it
Item(text)            == [text |-> text, names |-> <<>>]
ItemNaming(text, els) == [text |-> text, names |-> els]

\* a line of the extraction response: surrounding blanks or not, a leading
\* "- " or not, and the rest of the line
Line(indent, dash, text) == [indent |-> indent, dash |-> dash, text |-> text]
Plain(text) == Line(FALSE, FALSE, text)
Bullet(text) == Line(FALSE, TRUE, text)

\* line = line.strip()
StripLine(line) == [line EXCEPT !.indent = FALSE]

\* variant: a bullet met before any header is taken as a suggestion
ParseLine_default_section(acc, raw) ==
    LET line == StripLine(raw)
    IN  IF ~line.dash /\ line.text = "" THEN acc
        ELSE IF ~line.dash /\ line.text = "SUGGESTIONS:"
             THEN [acc EXCEPT !.current_section = "suggestions"]
        ELSE IF ~line.dash /\ line.text = "POINTS POSITIFS:"
             THEN [acc EXCEPT !.current_section = "positives"]
        ELSE IF line.dash
             THEN IF acc.current_section = "positives"
                  THEN [acc EXCEPT !.positives = Append(@, Item(line.text))]
                  ELSE [acc EXCEPT !.suggestions = Append(@, Item(line.text))]
        ELSE acc

\* one iteration of the loop over response.split('\n')
ParseLine(acc, raw) ==
    LET line == StripLine(raw)
    IN  IF ~line.dash /\ line.text = "" THEN acc
        ELSE IF ~line.dash /\ line.text = "SUGGESTIONS:"
             THEN [acc EXCEPT !.current_section = "suggestions"]
        ELSE IF ~line.dash /\ line.text = "POINTS POSITIFS:"
             THEN [acc EXCEPT !.current_section = "positives"]
        ELSE IF line.dash /\ acc.current_section # "None"
             THEN IF acc.current_section = "suggestions"
                  THEN [acc EXCEPT !.suggestions = Append(@, Item(line.text))]
                  ELSE [acc EXCEPT !.positives = Append(@, Item(line.text))]
        ELSE acc

RECURSIVE ParseLines(_, _, _)
ParseLines(acc, lines, k) ==
    IF k > Len(lines) THEN acc
    ELSE ParseLines(ParseLine(acc, lines[k]), lines, k + 1)

\* suggestions = []; positives = []; current_section = None; the loop
ParseResponse(lines) ==
    ParseLines([suggestions |-> <<>>, positives |-> <<>>, current_section |-> "None"],
               lines, 1)

\* seq[:2]
FirstTwo(seq) == SubSeq(seq, 1, IF Len(seq) < 2 THEN Len(seq) ELSE 2)

\* variant: every missing element is named
DefaultSuggestion_all(elements) ==
    IF elements.key_elements_missing # <<>>
    THEN ItemNaming("Ajouter les éléments manquants: ", elements.key_elements_missing)
    ELSE Item("Développer ta réponse davantage")

\* if not suggestions: ...
DefaultSuggestion(elements) ==
    IF elements.key_elements_missing # <<>>
    THEN ItemNaming("Ajouter les éléments manquants: ",
                    FirstTwo(elements.key_elements_missing))
    ELSE Item("Développer ta réponse davantage")

\* if not positives: ...
DefaultPositive(elements) ==
    IF elements.key_elements_found # <<>>
    THEN ItemNaming("Tu as bien mentionné: ", FirstTwo(elements.key_elements_found))
    ELSE Item("Tu as fait l'effort de répondre à la question")

\* variant: the except branch falls back to the defaults of the try branch
ExtractionFailureDefaults_from_elements(elements) ==
    [suggestions |-> <<DefaultSuggestion(elements)>>,
     positives   |-> <<DefaultPositive(elements)>>]

\* except Exception: default_suggestions, default_positives
ExtractionFailureDefaults(elements) ==
    [suggestions |-> <<Item("Relire attentivement la question"),
                       Item("Ajouter plus de détails dans ta réponse")>>,
     positives   |-> <<Item("Tu as fait l'effort de répondre à la question")>>]

ExtractionFailed       == [ok |-> FALSE, lines |-> <<>>]
ExtractionReturned(ls) == [ok |-> TRUE, lines |-> ls]

_extract_suggestions_and_positives(outcome, elements) ==
    IF ~outcome.ok THEN ExtractionFailureDefaults(elements)
    ELSE LET parsed == ParseResponse(outcome.lines)
         IN  [suggestions |-> IF parsed.suggestions = <<>>
                              THEN <<DefaultSuggestion(elements)>>
                              ELSE parsed.suggestions,
              positives   |-> IF parsed.positives = <<>>
                              THEN <<DefaultPositive(elements)>>
                              ELSE parsed.positives]

\* ------------------------------------------------------------------------
\* generate_feedback, called with the result analyze_answer returned
\* ------------------------------------------------------------------------
\* feedback_type = self._determine_feedback_type(analysis_result["status"])
DetermineFeedbackType ==
    /\ pc = "done"
    \* inside submit_answer, update_answer is awaited before generate_feedback
    /\ submit.step \in {"idle", "generate"}
    /\ feedback_type' = _determine_feedback_type(analysis_result.status)
    /\ pc' = "feedback_content"
    /\ UNCHANGED <<inputs, analysis_result, i, found_elements, missing_elements,
                   raw_score, embedding_similarity, exception, presence_calls,
                   grammar_calls, provider_calls, statusVars, serviceVars, feedback_content,
                   text_calls, feedback>>

\* await self._generate_feedback_content(feedback_elements, feedback_type, grade)
GenerateFeedbackContent(outcome) ==
    /\ pc = "feedback_content"
    /\ text_calls' = Append(text_calls,
            [prompt |-> ContentPrompt(feedback_type), ok |-> outcome.ok,
             text |-> outcome.text, lines |-> <<>>])
    /\ feedback_content' = IF outcome.ok THEN Content(outcome.text)
                           ELSE FallbackContent(FeedbackElements(analysis_result))
    /\ pc' = "extraction"
    /\ UNCHANGED <<inputs, analysis_result, i, found_elements, missing_elements,
                   raw_score, embedding_similarity, exception, presence_calls,
                   grammar_calls, provider_calls, statusVars, serviceVars, feedback_type,
                   feedback>>

CorrectionDetails(result) ==
    [score |-> result.raw_score, maxScore |-> result.max_score,
     percentage |-> result.percentage_score, status |-> result.status,
     keyElementsFound |-> result.key_elements_found,
     keyElementsMissing |-> result.key_elements_missing,
     grammarIssues |-> result.grammar_issues]

\* await self._extract_suggestions_and_positives(feedback_content, feedback_elements),
\* then FeedbackCreate(...) and return
ExtractSuggestionsAndPositives(outcome) ==
    /\ pc = "extraction"
    /\ text_calls' = Append(text_calls,
            [prompt |-> ExtractionPrompt(feedback_content), ok |-> outcome.ok,
             text |-> "", lines |-> outcome.lines])
    /\ LET extracted == _extract_suggestions_and_positives(
                            outcome, FeedbackElements(analysis_result))
       IN  feedback' = [feedbackContent |-> feedback_content,
                        correctionDetails |-> CorrectionDetails(analysis_result),
                        suggestedImprovements |-> extracted.suggestions,
                        positivePoints |-> extracted.positives,
                        feedbackType |-> feedback_type]
    /\ pc' = "feedback_returned"
    /\ UNCHANGED <<inputs, analysis_result, i, found_elements, missing_elements,
                   raw_score, embedding_similarity, exception, presence_calls,
                   grammar_calls, provider_calls, statusVars, serviceVars, feedback_type,
                   feedback_content>>

\* ------------------------------------------------------------------------
\* Inputs of generate_feedback: analyses of two answers against templates of
\* up to MaxFeedbackKeyElements key elements, and what the provider may answer
\* ------------------------------------------------------------------------
\* longest keyElements list of a template whose feedback is generated
MaxFeedbackKeyElements == 3
\* most "- " lines under one header of an extraction response
MaxBullets == 4

FeedbackKeyElementLists ==
    UNION {[1..n -> KeyElementPool] : n \in 0..MaxFeedbackKeyElements}

FeedbackPresenceOutcomes   == {Failed, Returned(<<Num(17, 20)>>)}
FeedbackEmbeddingOutcomes  == {EmbeddingFailed, [ok |-> TRUE, val |-> Rat(9, 10)]}
FeedbackSimilarityOutcomes == {Returned(<<Num(4, 5)>>)}

ContentOutcomes ==
    {ContentFailed, ContentReturned("Très bien, tu as compris."), ContentReturned("")}

\* the first n names as "- " lines
Bullets(names, n) == [k \in 1..n |-> Bullet(names[k])]

SuggestionNames == <<"s1", "s2", "s3", "s4", "s5">>
PositiveNames   == <<"p1", "p2", "p3", "p4", "p5">>

\* the format the prompt asks for, with n suggestions and m positive points
WellFormed(n, m) ==
    <<Plain("SUGGESTIONS:")>> \o Bullets(SuggestionNames, n)
    \o <<Plain(""), Plain("POINTS POSITIFS:")>> \o Bullets(PositiveNames, m)

ExtractionResponses ==
    {WellFormed(n, m) : n \in 0..MaxBullets, m \in 0..MaxBullets}
    \cup
    { \* only a SUGGESTIONS: section of two bullets
      <<Plain("SUGGESTIONS:"), Bullet("s1"), Bullet("s2")>>,
      \* nothing at all, and prose without headers
      <<Plain("")>>,
      <<Plain("Voici mon analyse."), Bullet("s1")>>,
      \* indented lines, a bullet before any header, text between bullets,
      \* a dash without a blank, a header with other words, sections revisited
      <<Bullet("s1"), Line(TRUE, FALSE, "POINTS POSITIFS:"), Line(TRUE, TRUE, "p1"),
        Plain("ensuite"), Plain("-s2"), Plain("SUGGESTIONS :"), Bullet("p2"),
        Plain("SUGGESTIONS:"), Bullet("s3"), Plain("POINTS POSITIFS:"),
        Bullet("p3")>> }

ExtractionOutcomes ==
    {ExtractionFailed} \cup {ExtractionReturned(ls) : ls \in ExtractionResponses}

FeedbackInit ==
    /\ student_answer \in [answerText : {TxtEau, TxtFull}]
    /\ question = [maxScore |-> 10, grade |-> "CE2"]
    /\ answer_template \in [keyElements : FeedbackKeyElementLists,
                            scoringRubric : {Rubric(NoWeights, Rat(10, 1))},
                            minimumScore : MinimumScores,
                            requiresGrammarCheck : BOOLEAN, modelAnswer : {TxtModel}]
    /\ AnalyzeEntry
    /\ StatusIdle
    /\ FeedbackIdle
    /\ ServiceIdle

FeedbackNext ==
    \/ KeyElementsEmpty
    \/ ElementLiteral
    \/ \E outcome \in FeedbackPresenceOutcomes : ElementPresence(outcome)
    \/ KeyElementsReturn
    \/ GrammarCheck
    \/ GrammarSkip
    \/ CalculateScore
    \/ \E outcome \in FeedbackEmbeddingOutcomes : EmbeddingCall(outcome)
    \/ \E outcome \in FeedbackSimilarityOutcomes : LLMSimilarityCall(outcome)
    \/ DetermineFeedbackType
    \/ \E outcome \in ContentOutcomes : GenerateFeedbackContent(outcome)
    \/ \E outcome \in ExtractionOutcomes : ExtractSuggestionsAndPositives(outcome)

FeedbackSpec == FeedbackInit /\ [][FeedbackNext]_vars


\* ------------------------------------------------------------------------
\* app/services/question_service.py on the collections of db
\* ------------------------------------------------------------------------
\* most questions the collection holds
MaxQuestions == 2

\* maxScore : int of OpenQuestionCreate and OpenQuestionUpdate, as requests set it
QuestionMaxScores == {4, 10}
\* minimumScore : float of AnswerTemplateCreate and AnswerTemplateUpdate
TemplateMinimumScores == {Rat(6, 1), Rat(12, 1)}

\* the body of POST /questions: question_in
QuestionsIn == [maxScore : QuestionMaxScores, grade : {"CE2"}]

\* an AnswerTemplateCreate; questionId is set by create_question
TemplateCreate(minimumScore, requiresGrammarCheck, keyElements, modelAnswer) ==
    [questionId |-> 0, keyElements |-> keyElements,
     scoringRubric |-> Rubric(NoWeights, None), minimumScore |-> minimumScore,
     requiresGrammarCheck |-> requiresGrammarCheck, modelAnswer |-> modelAnswer]

\* template_in: Optional[AnswerTemplateCreate] = None
NoTemplateIn == [given |-> FALSE, value |-> TemplateCreate(Zero, TRUE, <<>>, TxtEmpty)]
TemplatesIn ==
    {NoTemplateIn}
    \cup {[given |-> TRUE, value |-> TemplateCreate(m, TRUE, <<TxtNuage>>, TxtModel)] :
            m \in TemplateMinimumScores}

\* create_question: the question is inserted, then the template given with the
\* question's id, or the default template when none is given
create_question(d, question_in, template_in) ==
    LET questions == Append(d.questions, question_in)
        question_id == Len(questions)
        template ==
            IF template_in.given
            THEN [template_in.value EXCEPT !.questionId = question_id]
            ELSE [TemplateCreate(RMul(Rat(question_in.maxScore, 1), Rat(6, 10)),
                                 TRUE, <<>>, TxtEmpty)
                     EXCEPT !.questionId = question_id]
    IN  [d EXCEPT !.questions = questions, !.templates = Append(@, template)]

\* the text after 'DIFFICULTÉ:' in the generated text: no such line, an integer
\* literal, or anything int() rejects
NoDifficulty == [kind |-> "absent", value |-> 0]
DifficultyLines ==
    {NoDifficulty, [kind |-> "other", value |-> 0]}
    \cup {[kind |-> "int", value |-> n] : n \in {-2, 1, 3, 9}}

IntMin(a, b) == IF b < a THEN b ELSE a
IntMax(a, b) == IF b > a THEN b ELSE a

\* difficultyLevel as _parse_generated_questions sets it
difficultyLevel(line) ==
    IF line.kind = "int" THEN IntMax(1, IntMin(5, line.value)) ELSE 3

\* one entry of the list _parse_generated_questions returns
_parse_generated_questions(line, question_type, grade) ==
    LET maxScore == difficultyLevel(line) * 2
    IN  [question |-> [maxScore |-> maxScore, grade |-> grade],
         answerTemplate |->
            [given |-> TRUE,
             value |-> TemplateCreate(RMul(Rat(maxScore, 1), Rat(6, 10)),
                                      question_type \in {"grammaire", "expression"},
                                      <<TxtNuage>>, TxtModel)]]

QuestionTypes == {"compréhension", "grammaire"}

\* OpenQuestionUpdate and AnswerTemplateUpdate: only the fields the request sets
\* reach $set (dict(exclude_unset=True))
QuestionUpdates == [keys : SUBSET {"maxScore"}, maxScore : QuestionMaxScores]
TemplateUpdates == [keys : SUBSET {"minimumScore"}, minimumScore : TemplateMinimumScores]

\* POST /questions
CreateQuestion(question_in, template_in) ==
    /\ submit.step = "idle"
    /\ Len(db.questions) < MaxQuestions
    /\ db' = create_question(db, question_in, template_in)
    /\ UNCHANGED <<analyzeVars, statusVars, feedbackVars, submit, suspended>>

\* generate_questions_from_text_analysis, one generated question of its loop
GenerateQuestion(line, question_type) ==
    /\ submit.step = "idle"
    /\ Len(db.questions) < MaxQuestions
    /\ LET q_data == _parse_generated_questions(line, question_type, "CE2")
       IN  db' = create_question(db, q_data.question, q_data.answerTemplate)
    /\ UNCHANGED <<analyzeVars, statusVars, feedbackVars, submit, suspended>>

\* PUT /questions/{question_id}
UpdateQuestion(question_id, question_in) ==
    /\ submit.step = "idle"
    /\ db' = IF question_id \in DOMAIN db.questions /\ "maxScore" \in question_in.keys
             THEN [db EXCEPT !.questions[question_id].maxScore = question_in.maxScore]
             ELSE db
    /\ UNCHANGED <<analyzeVars, statusVars, feedbackVars, submit, suspended>>

\* PUT /questions/templates/{template_id}
UpdateAnswerTemplate(template_id, template_in) ==
    /\ submit.step = "idle"
    /\ db' = IF template_id \in DOMAIN db.templates /\ "minimumScore" \in template_in.keys
             THEN [db EXCEPT !.templates[template_id].minimumScore =
                                 template_in.minimumScore]
             ELSE db
    /\ UNCHANGED <<analyzeVars, statusVars, feedbackVars, submit, suspended>>

QuestionInit ==
    /\ AnalyzeIdle
    /\ StatusIdle
    /\ FeedbackIdle
    /\ ServiceIdle

QuestionNext ==
    \/ \E question_in \in QuestionsIn, template_in \in TemplatesIn :
          CreateQuestion(question_in, template_in)
    \/ \E line \in DifficultyLines, question_type \in QuestionTypes :
          GenerateQuestion(line, question_type)
    \/ \E question_id \in 1..(MaxQuestions + 1), question_in \in QuestionUpdates :
          UpdateQuestion(question_id, question_in)
    \/ \E template_id \in 1..(MaxQuestions + 1), template_in \in TemplateUpdates :
          UpdateAnswerTemplate(template_id, template_in)

QuestionSpec == QuestionInit /\ [][QuestionNext]_vars


\* ------------------------------------------------------------------------
\* app/services/answer_service.py : submit_answer and
\* update_feedback_helpfulness.  Two submit_answer calls run on one event loop:
\* the variables of analyze_answer and generate_feedback and submit hold the
\* locals of the call that is running, suspended those of the call that waits
\* at an await.
\* ------------------------------------------------------------------------
\* the locals of the running call
Frame ==
    [student_answer |-> student_answer, question |-> question,
     answer_template |-> answer_template, pc |-> pc,
     analysis_result |-> analysis_result, i |-> i,
     found_elements |-> found_elements, missing_elements |-> missing_elements,
     raw_score |-> raw_score, embedding_similarity |-> embedding_similarity,
     exception |-> exception, presence_calls |-> presence_calls,
     grammar_calls |-> grammar_calls, provider_calls |-> provider_calls,
     feedback_type |-> feedback_type, feedback_content |-> feedback_content,
     text_calls |-> text_calls, feedback |-> feedback, submit |-> submit]

\* variant: found_elements and missing_elements are attributes of the one
\* AnswerAnalyzer, so a call that resumes finds what the other call left there
Resume_shared(frame, running) ==
    [frame EXCEPT !.found_elements = running.found_elements,
                  !.missing_elements = running.missing_elements]

\* a coroutine resumes with its own locals: found_elements and missing_elements
\* are created inside _check_key_elements, nothing is kept on self
Resume(frame, running) == frame

\* find({"studentId": ..., "questionId": ...}).to_list(length=100)
get_by_student_and_question(answers, student_id, question_id) ==
    SelectSeq(answers, LAMBDA a : a.studentId = student_id /\ a.questionId = question_id)

\* find({"questionId": ...}).to_list(length=100), as positions in the collection
get_by_question(templates, question_id) ==
    {t \in DOMAIN templates : templates[t].questionId = question_id}

\* templates[0]
FirstTemplate(templates, question_id) ==
    LET found == get_by_question(templates, question_id)
        first == CHOOSE t \in found : \A u \in found : t <= u
    IN  [keyElements |-> templates[first].keyElements,
         scoringRubric |-> templates[first].scoringRubric,
         minimumScore |-> templates[first].minimumScore,
         requiresGrammarCheck |-> templates[first].requiresGrammarCheck,
         modelAnswer |-> templates[first].modelAnswer]

\* variant: every failure of submit_answer is answered with 500
HttpStatus_always_500(error) == 500

\* the route: except ValueError -> 404, except Exception -> 500
HttpStatus(error) == IF error = "ValueError" THEN 404 ELSE 500

\* variant: only the score is written back
WriteBack_score_only(answer, result) ==
    [answer EXCEPT !.scoreObtained = result.raw_score]

\* $set of StudentAnswerUpdate(scoreObtained=raw_score, answerStatus=status)
WriteBack(answer, result) ==
    [answer EXCEPT !.scoreObtained = result.raw_score,
                   !.answerStatus = result.status]

\* variant: the update writes every field of FeedbackUpdate, the unset ones too
SetHelpful_all_fields(stored, was_helpful) ==
    [answerId |-> stored.answerId, feedbackContent |-> NoFeedback.feedbackContent,
     correctionDetails |-> NoFeedback.correctionDetails,
     suggestedImprovements |-> NoFeedback.suggestedImprovements,
     positivePoints |-> NoFeedback.positivePoints,
     feedbackType |-> NoFeedback.feedbackType, wasHelpful |-> was_helpful]

\* $set of FeedbackUpdate(wasHelpful=was_helpful).dict(exclude_unset=True)
SetHelpful(stored, was_helpful) == [stored EXCEPT !.wasHelpful = was_helpful]

\* submit_answer is called; get_by_student_and_question is awaited and answers
SubmitAnswer(answer_in) ==
    /\ submit.step = "idle"
    /\ pc = "idle"
    /\ submit' = [step |-> "create", answer_in |-> answer_in,
                  previous_attempts |->
                      Len(get_by_student_and_question(db.answers, answer_in.studentId,
                                                      answer_in.questionId)),
                  answer_id |-> 0, http |-> 0]
    /\ UNCHANGED <<analyzeVars, statusVars, feedbackVars, db, suspended>>

\* answer_data["attemptNumber"] = len(previous_attempts) + 1, then create_answer
CreateAnswer ==
    /\ submit.step = "create"
    /\ LET answer_data == [submit.answer_in EXCEPT
                              !.attemptNumber = submit.previous_attempts + 1]
       IN  /\ db' = [db EXCEPT !.answers = Append(@, answer_data)]
           /\ submit' = [submit EXCEPT !.step = "question",
                                       !.answer_id = Len(db.answers) + 1]
    /\ UNCHANGED <<analyzeVars, statusVars, feedbackVars, suspended>>

\* question = await question_repository.get(...); if not question: raise ValueError,
\* which the route turns into 404
GetQuestion ==
    /\ submit.step = "question"
    /\ submit' = IF submit.answer_in.questionId \in DOMAIN db.questions
                 THEN [submit EXCEPT !.step = "templates"]
                 ELSE [submit EXCEPT !.step = "raised",
                                     !.http = HttpStatus("ValueError")]
    /\ UNCHANGED <<analyzeVars, statusVars, feedbackVars, db, suspended>>

\* templates = await get_by_question(...); if not templates: raise ValueError;
\* else analyze_answer(student_answer, question, templates[0]) is entered
GetTemplates ==
    /\ submit.step = "templates"
    /\ IF get_by_question(db.templates, submit.answer_in.questionId) = {}
       THEN /\ submit' = [submit EXCEPT !.step = "raised",
                                        !.http = HttpStatus("ValueError")]
            /\ UNCHANGED analyzeVars
       ELSE /\ submit' = [submit EXCEPT !.step = "analyze"]
            /\ student_answer' = [answerText |-> submit.answer_in.answerText]
            /\ question' = db.questions[submit.answer_in.questionId]
            /\ answer_template' = FirstTemplate(db.templates, submit.answer_in.questionId)
            /\ pc' = "key_elements"
            /\ analysis_result' = InitialResult(question')
            /\ i' = 1
            /\ found_elements' = <<>>
            /\ missing_elements' = <<>>
            /\ UNCHANGED <<raw_score, embedding_similarity, exception, presence_calls,
                           grammar_calls, provider_calls>>
    /\ UNCHANGED <<statusVars, feedbackVars, db, suspended>>

\* analyze_answer raised: except Exception: raise, which the route turns into 500
AnalysisRaised ==
    /\ submit.step = "analyze"
    /\ pc = "raised"
    /\ submit' = [submit EXCEPT !.step = "raised", !.http = HttpStatus(exception)]
    /\ UNCHANGED <<analyzeVars, statusVars, feedbackVars, db, suspended>>

\* update_answer(student_answer.id, StudentAnswerUpdate(scoreObtained, answerStatus))
UpdateAnswer ==
    /\ submit.step = "analyze"
    /\ pc = "done"
    /\ db' = [db EXCEPT !.answers[submit.answer_id] = WriteBack(@, analysis_result)]
    /\ submit' = [submit EXCEPT !.step = "generate"]
    /\ UNCHANGED <<analyzeVars, statusVars, feedbackVars, suspended>>

\* created_feedback = await feedback_repository.create_feedback(feedback); return
CreateFeedback ==
    /\ submit.step = "generate"
    /\ pc = "feedback_returned"
    /\ db' = [db EXCEPT !.feedbacks = Append(@,
                 [answerId |-> submit.answer_id,
                  feedbackContent |-> feedback.feedbackContent,
                  correctionDetails |-> feedback.correctionDetails,
                  suggestedImprovements |-> feedback.suggestedImprovements,
                  positivePoints |-> feedback.positivePoints,
                  feedbackType |-> feedback.feedbackType,
                  wasHelpful |-> "None"])]
    /\ submit' = [submit EXCEPT !.step = "returned", !.http = 201]
    /\ UNCHANGED <<analyzeVars, statusVars, feedbackVars, suspended>>

\* update_feedback(feedback_id, FeedbackUpdate(wasHelpful=was_helpful)):
\* $set {"wasHelpful": was_helpful} on the document with this _id, if any
UpdateFeedbackHelpfulness(feedback_id, was_helpful) ==
    /\ feedback_id \in DOMAIN db.feedbacks
    /\ db' = [db EXCEPT !.feedbacks[feedback_id] = SetHelpful(@, was_helpful)]
    /\ UNCHANGED <<analyzeVars, statusVars, feedbackVars, submit, suspended>>

\* the running call waits for the database or for a provider (or is over, or
\* has not been called): the event loop may run the other call
AtAwait ==
    \/ submit.step \in {"idle", "create", "question", "templates", "returned", "raised"}
    \/ /\ submit.step = "analyze"
       /\ \/ pc \in {"similarity", "llm_similarity", "done"}
          \/ /\ pc = "key_elements"
             /\ i <= Len(key_elements)
             /\ ~LiteralMatch(key_elements[i])
    \/ /\ submit.step = "generate"
       /\ pc \in {"feedback_content", "extraction", "feedback_returned"}

Switch ==
    /\ AtAwait
    /\ Frame # suspended
    /\ suspended' = Frame
    /\ LET next == Resume(suspended, Frame)
       IN  /\ student_answer' = next.student_answer
           /\ question' = next.question
           /\ answer_template' = next.answer_template
           /\ pc' = next.pc
           /\ analysis_result' = next.analysis_result
           /\ i' = next.i
           /\ found_elements' = next.found_elements
           /\ missing_elements' = next.missing_elements
           /\ raw_score' = next.raw_score
           /\ embedding_similarity' = next.embedding_similarity
           /\ exception' = next.exception
           /\ presence_calls' = next.presence_calls
           /\ grammar_calls' = next.grammar_calls
           /\ provider_calls' = next.provider_calls
           /\ feedback_type' = next.feedback_type
           /\ feedback_content' = next.feedback_content
           /\ text_calls' = next.text_calls
           /\ feedback' = next.feedback
           /\ submit' = next.submit
    /\ UNCHANGED <<statusVars, db>>

\* ------------------------------------------------------------------------
\* Inputs of the submit workflow
\* ------------------------------------------------------------------------
SubmitQuestion == [maxScore |-> 10, grade |-> "CE2"]

\* the template of question 1: two key elements and a grammar check, or neither
SubmitTemplates ==
    {[questionId |-> 1, keyElements |-> keys,
      scoringRubric |-> Rubric(NoWeights, Rat(10, 1)),
      minimumScore |-> Rat(6, 1), requiresGrammarCheck |-> (keys # <<>>),
      modelAnswer |-> TxtModel] : keys \in {<<>>, <<TxtEau, TxtNuage>>}}

\* question 1 with its template; question 2 stored by create_question whose
\* create_template has not run yet; no question 3
SubmitDb(template) ==
    [questions |-> <<SubmitQuestion, SubmitQuestion>>,
     templates |-> <<template>>, answers |-> <<>>, feedbacks |-> <<>>]

\* a StudentAnswerCreate as the client sends it
AnswerIn(student_id, question_id, text, status, score) ==
    [studentId |-> student_id, questionId |-> question_id, answerText |-> text,
     scoreObtained |-> score, answerStatus |-> status, attemptNumber |-> 1]

AnswersIn ==
    {AnswerIn(1, 1, TxtFull, "pending", Zero),
     AnswerIn(1, 1, TxtBlank, "pending", Zero),
     AnswerIn(2, 1, TxtFull, "pending", Zero),
     AnswerIn(1, 2, TxtFull, "pending", Zero),
     AnswerIn(1, 3, TxtFull, "pending", Zero),
     AnswerIn(1, 3, TxtFull, "correct", Rat(10, 1))}

SubmitPresenceOutcomes   == {Failed, Returned(<<Num(17, 20)>>)}
SubmitEmbeddingOutcomes  == {[ok |-> TRUE, val |-> Rat(9, 10)]}
SubmitSimilarityOutcomes == {Returned(<<Num(4, 5)>>)}
SubmitContentOutcomes    == {ContentFailed, ContentReturned("Très bien, tu as compris.")}
SubmitExtractionOutcomes == {ExtractionFailed, ExtractionReturned(WellFormed(1, 1))}
HelpfulValues == {"True", "False"}

SubmitInit ==
    /\ AnalyzeIdle
    /\ StatusIdle
    /\ FeedbackIdle
    /\ db \in {SubmitDb(template) : template \in SubmitTemplates}
    /\ submit = NoCall
    /\ suspended = IdleFrame

SubmitNext ==
    \/ \E answer_in \in AnswersIn : SubmitAnswer(answer_in)
    \/ CreateAnswer
    \/ GetQuestion
    \/ GetTemplates
    \/ KeyElementsEmpty
    \/ ElementLiteral
    \/ \E outcome \in SubmitPresenceOutcomes : ElementPresence(outcome)
    \/ KeyElementsReturn
    \/ GrammarCheck
    \/ GrammarSkip
    \/ CalculateScore
    \/ \E outcome \in SubmitEmbeddingOutcomes : EmbeddingCall(outcome)
    \/ \E outcome \in SubmitSimilarityOutcomes : LLMSimilarityCall(outcome)
    \/ AnalysisRaised
    \/ UpdateAnswer
    \/ DetermineFeedbackType
    \/ \E outcome \in SubmitContentOutcomes : GenerateFeedbackContent(outcome)
    \/ \E outcome \in SubmitExtractionOutcomes : ExtractSuggestionsAndPositives(outcome)
    \/ CreateFeedback
    \/ \E feedback_id \in 1..2, was_helpful \in HelpfulValues :
          UpdateFeedbackHelpfulness(feedback_id, was_helpful)
    \/ Switch

SubmitSpec == SubmitInit /\ [][SubmitNext]_vars


\* ========================================================================
\* Properties
\* ========================================================================
maxScoreR == Rat(question.maxScore, 1)

\* analyze_answer has gone past the score step without raising
Scored == pc \in {"similarity", "llm_similarity", "done"}

\* C1: for every analyze call, rawScore = min(weightedFraction * maxScore, maxScore),
\* the weighted fraction (after the optional multiplier) being scaled by maxScore
\* before the cap.
C1_RawScoreScaledByMaxScore ==
    Scored => analysis_result.raw_score = RMin(RMul(raw_score, maxScoreR), maxScoreR)

\* C2: for every analyze call with maxScore > 0 and any template,
\* 0 <= rawScore <= maxScore and percentageScore = rawScore / maxScore * 100.
C2_ScoreWithinBounds ==
    (Scored /\ question.maxScore > 0) =>
        /\ RLeq(Zero, analysis_result.raw_score)
        /\ RLeq(analysis_result.raw_score, maxScoreR)
        /\ analysis_result.percentage_score =
              RMul(RDiv(analysis_result.raw_score, maxScoreR), Rat(100, 1))

\* ------------------------------------------------------------------------
Statuses == {"excellent", "correct", "acceptable", "partially_correct", "incorrect"}

\* the ordered rule of the status classification, first match wins
RuleStatus(s, m, M) ==
    IF RGeq(s, m) /\ RGeq(s, RMul(Rat(9, 10), M)) THEN "excellent"
    ELSE IF RGeq(s, m) /\ RGeq(s, RMul(Rat(3, 4), M)) THEN "correct"
    ELSE IF RGeq(s, m) THEN "acceptable"
    ELSE IF RLt(s, m) /\ RGeq(s, RMul(Rat(3, 5), m)) THEN "partially_correct"
    ELSE "incorrect"

\* C3: the status returned for (rawScore, minimumScore, maxScore) is one of the
\* five statuses and is the one the ordered rule names; rawScore 3 with
\* minimumScore 6 gives incorrect.
C3_StatusIsTheRule ==
    /\ \A side \in {"lo", "hi"} :
          sOut[side] # "none" =>
             /\ sOut[side] \in Statuses
             /\ sOut[side] = RuleStatus(sArgs[side], sArgs.minimum_score,
                                        Rat(sArgs.max_score, 1))
    /\ (sOut.lo # "none" /\ sArgs.lo = Rat(3, 1) /\ sArgs.minimum_score = Rat(6, 1))
          => sOut.lo = "incorrect"

C3_Witness ==
    /\ sArgs.lo = Rat(3, 1) /\ sArgs.minimum_score = Rat(6, 1)
    /\ sOut.lo = "incorrect"
    /\ sArgs.hi = Rat(18, 5) /\ sOut.hi = "partially_correct"

Rank(status) ==
    CASE status = "incorrect" -> 0
      [] status = "partially_correct" -> 1
      [] status = "acceptable" -> 2
      [] status = "correct" -> 3
      [] status = "excellent" -> 4

\* C4: for fixed minimumScore and maxScore and scores lo <= hi, the status of lo is
\* not of higher quality than the status of hi.
C4_StatusMonotonic ==
    (sOut.lo # "none" /\ sOut.hi # "none") => Rank(sOut.lo) <= Rank(sOut.hi)

\* a minimum above 0.9 * maxScore: partially_correct jumps to excellent
C4_Witness ==
    /\ RLt(RMul(Rat(9, 10), Rat(sArgs.max_score, 1)), sArgs.minimum_score)
    /\ sOut.lo = "partially_correct"
    /\ sOut.hi = "excellent"

\* ------------------------------------------------------------------------
\* entry j of keyElements counts as found: literal containment of the normalized
\* forms (na is the normalized answer), or else a check_element_presence
\* result >= 0.8
EntryIsFound(j, na) ==
    \/ Contains(na, normalize_text(key_elements[j]))
    \/ \E k \in 1..Len(presence_calls) :
          /\ presence_calls[k].index = j
          /\ RGeq(presence_calls[k].returned, Rat(8, 10))

\* the entries j..(i-1) already looped over that are (are not) found, in order
RECURSIVE EntriesFrom(_, _, _)
EntriesFrom(j, wantFound, na) ==
    IF j >= i THEN <<>>
    ELSE (IF EntryIsFound(j, na) = wantFound THEN <<key_elements[j]>> ELSE <<>>)
         \o EntriesFrom(j + 1, wantFound, na)

\* C5: an element is counted as found iff its normalized form is a substring of
\* the normalized answer, or else elementPresence returned >= 0.8; elementPresence
\* is called only for elements whose literal test failed, once per element, with
\* the answer text and that element.  Stated of the loop and of its end; later
\* steps leave found_elements, missing_elements and presence_calls alone.
C5_FoundIffLiteralOrPresence ==
    (pc \in {"key_elements", "grammar"}) =>
    LET na == normalize_text(student_answer.answerText)
    IN  /\ found_elements = EntriesFrom(1, TRUE, na)
        /\ missing_elements = EntriesFrom(1, FALSE, na)
        /\ \A k \in 1..Len(presence_calls) :
              LET c == presence_calls[k]
              IN  /\ c.index \in 1..(i - 1)
                  /\ c.element = key_elements[c.index]
                  /\ c.text = student_answer.answerText
                  /\ ~Contains(na, normalize_text(c.element))
                  /\ \A l \in 1..Len(presence_calls) :
                        k < l => c.index < presence_calls[l].index

\* keyElements = [eau, nuage], "eau" literal, elementPresence(nuage) = 0.85
C5_Witness ==
    /\ pc = "grammar"
    /\ student_answer.answerText = TxtFull
    /\ key_elements = <<TxtEau, TxtNuage>>
    /\ analysis_result.key_elements_found = <<TxtEau, TxtNuage>>
    /\ analysis_result.key_elements_score = One
    /\ Len(presence_calls) = 1
    /\ presence_calls[1].element = TxtNuage
    /\ presence_calls[1].returned = Rat(85, 100)

\* k is an order-preserving interleaving of f and m
RECURSIVE IsMerge(_, _, _)
IsMerge(f, m, k) ==
    IF k = <<>> THEN f = <<>> /\ m = <<>>
    ELSE \/ f # <<>> /\ Head(f) = Head(k) /\ IsMerge(Tail(f), m, Tail(k))
         \/ m # <<>> /\ Head(m) = Head(k) /\ IsMerge(f, Tail(m), Tail(k))

KeyElementsChecked == pc \notin {"idle", "key_elements"}

\* C6: the coverage score is |found| / |keyElements| for a non-empty keyElements
\* and exactly 1.0 for an empty one (found and missing empty, no provider call);
\* found and missing list every key element exactly once, in template order.
C6_CoverageScore ==
    KeyElementsChecked =>
        LET f == analysis_result.key_elements_found
            m == analysis_result.key_elements_missing
        IN  /\ IF key_elements = <<>>
               THEN /\ analysis_result.key_elements_score = One
                    /\ f = <<>> /\ m = <<>>
                    /\ presence_calls = <<>>
               ELSE analysis_result.key_elements_score =
                       Rat(Len(f), Len(key_elements))
            /\ Len(f) + Len(m) = Len(key_elements)
            /\ IsMerge(f, m, key_elements)

C6_Witness ==
    /\ pc = "done"
    /\ key_elements = <<TxtNuage, TxtEau>>
    /\ analysis_result.key_elements_found = <<TxtEau>>
    /\ analysis_result.key_elements_missing = <<TxtNuage>>
    /\ analysis_result.key_elements_score = Half

\* C7: the weighted fraction is coverage * w.keyElements + grammar * w.grammar with
\* w = {0.7, 0.3} when the rubric has no weights and the rubric's weights otherwise,
\* multiplied by the score multiplier when the rubric has one.
C7_WeightedFraction ==
    (raw_score # None) =>
        LET r == answer_template.scoringRubric
            wk == IF "weights" \in r.keys THEN r.weights.key_elements ELSE Rat(7, 10)
            wg == IF "weights" \in r.keys THEN r.weights.grammar ELSE Rat(3, 10)
            fraction == RAdd(RMul(analysis_result.key_elements_score, wk),
                             RMul(analysis_result.grammar_score, wg))
        IN  raw_score = IF "score_multiplier" \in r.keys
                        THEN RMul(fraction, r.score_multiplier)
                        ELSE fraction

\* rubric weights 1.0/0.5 and multiplier 10, coverage 1/2, grammar 0.6
C7_Witness ==
    /\ pc = "done"
    /\ answer_template.scoringRubric.keys = {"weights", "score_multiplier"}
    /\ analysis_result.key_elements_score = Half
    /\ analysis_result.grammar_score = Rat(6, 10)
    /\ raw_score = Rat(8, 1)

GrammarStepDone == pc \in {"score", "similarity", "llm_similarity", "done", "raised"}

\* C8: with requiresGrammarCheck false the grammar score is exactly 1.0, the checker
\* is never invoked and grammarIssues is empty; with it true the checker is invoked
\* exactly once, with the answer text and the question's grade.
C8_GrammarCheckOnlyWhenRequired ==
    (pc # "idle") =>
    /\ ~answer_template.requiresGrammarCheck =>
          /\ grammar_calls = <<>>
          /\ analysis_result.grammar_issues = <<>>
          /\ GrammarStepDone => analysis_result.grammar_score = One
    /\ answer_template.requiresGrammarCheck =>
          grammar_calls = IF GrammarStepDone
                          THEN <<[text |-> student_answer.answerText,
                                  grade |-> question.grade]>>
                          ELSE <<>>

\* an answer the checker would fault, analysed without grammar check
C8_Witness ==
    /\ pc = "done"
    /\ ~answer_template.requiresGrammarCheck
    /\ student_answer.answerText = TxtEau
    /\ question.grade = "CM2"
    /\ analysis_result.grammar_score = One
    /\ grammar_calls = <<>>

\* C9: for valid inputs analyze (followed by generate) always completes and returns
\* its result whatever the providers do: no exception comes out of analyze.
C9_AnalyzeAlwaysCompletes ==
    (pc # "idle") => (pc # "raised" /\ exception = "none")

\* C10: a failed embedding or language-model call during similarity makes
\* similarity return exactly 0.5 without raising; a failed provider call inside
\* elementPresence makes it return 0.5 without raising.
C10_ProviderFailureYieldsHalf ==
    /\ \A k \in 1..Len(presence_calls) :
          ~presence_calls[k].outcome.ok => presence_calls[k].returned = Half
    /\ (presence_calls # <<>> /\ ~presence_calls[Len(presence_calls)].outcome.ok
          /\ pc = "key_elements")
          => exception = "none"
    /\ \A k \in 1..Len(provider_calls) :
          ~provider_calls[k].ok =>
             /\ k = Len(provider_calls)
             /\ pc = "done"
             /\ exception = "none"
             /\ analysis_result.semantic_similarity = Half

\* every provider is down: presence, then embedding
C10_Witness ==
    /\ pc = "done"
    /\ Len(presence_calls) = 2
    /\ \A k \in 1..2 : ~presence_calls[k].outcome.ok
    /\ provider_calls = <<[provider |-> "embedding", ok |-> FALSE, resp |-> <<>>]>>
    /\ analysis_result.semantic_similarity = Half

\* the language-model call of similarity fails after the embedding call succeeded
C10_WitnessLLM ==
    /\ pc = "done"
    /\ provider_calls = <<[provider |-> "embedding", ok |-> TRUE, resp |-> <<>>],
                          [provider |-> "llm", ok |-> FALSE, resp |-> <<>>]>>
    /\ analysis_result.semantic_similarity = Half

\* ------------------------------------------------------------------------
\* SemanticMatcher (MatcherSpec)
\* ------------------------------------------------------------------------
\* float() accepts the response: it is one number and nothing else
Parsable(response) == Len(response) = 1 /\ response[1].num # None

Clamped(v) == IF RLt(v, Zero) THEN Zero ELSE IF RLt(One, v) THEN One ELSE v

\* compute_similarity has returned after both provider calls succeeded
BothCallsSucceeded ==
    /\ pc = "done"
    /\ Len(provider_calls) = 2
    /\ provider_calls[1].ok
    /\ provider_calls[2].ok

\* C11: when both provider calls succeed, similarity =
\* 0.3 * embeddingSimilarity + 0.7 * modelSimilarity, where modelSimilarity is the
\* parsed score clamped to [0, 1], or 0.5 when the response is not a number; with
\* embeddingSimilarity in [0, 1] the result lies in [0, 1].
C11_WeightedBlend ==
    BothCallsSucceeded =>
        LET response == provider_calls[2].resp
            modelSimilarity == IF Parsable(response)
                               THEN Clamped(response[1].num) ELSE Half
            result == analysis_result.semantic_similarity
        IN  /\ result = RAdd(RMul(Rat(3, 10), embedding_similarity),
                             RMul(Rat(7, 10), modelSimilarity))
            /\ (RLeq(Zero, embedding_similarity) /\ RLeq(embedding_similarity, One))
                  => (RLeq(Zero, result) /\ RLeq(result, One))

\* embedding 0.9, model score 1.5 clamped to 1: 0.27 + 0.7
C11_Witness ==
    /\ BothCallsSucceeded
    /\ embedding_similarity = Rat(9, 10)
    /\ provider_calls[2].resp = <<Num(3, 2)>>
    /\ analysis_result.semantic_similarity = Rat(97, 100)

\* C12: elementPresence returns the parsed score clamped to [0, 1] when the
\* provider response is a number and exactly 0.5, without raising, when it is not;
\* its result is always in [0, 1].
C12_PresenceClampedOrHalf ==
    /\ \A k \in 1..Len(presence_calls) :
          LET call == presence_calls[k]
          IN  /\ (call.outcome.ok /\ Parsable(call.outcome.resp))
                    => call.returned = Clamped(call.outcome.resp[1].num)
              /\ (call.outcome.ok /\ ~Parsable(call.outcome.resp))
                    => call.returned = Half
              /\ RLeq(Zero, call.returned) /\ RLeq(call.returned, One)
    /\ (presence_calls # <<>> /\ pc = "key_elements") => exception = "none"

\* a score above 1 is clamped to 1, then a response that is not a number gives 0.5
C12_Witness ==
    /\ pc = "key_elements"
    /\ exception = "none"
    /\ Len(presence_calls) = 2
    /\ presence_calls[1].outcome = Returned(<<Num(3, 2)>>)
    /\ presence_calls[1].returned = One
    /\ presence_calls[2].outcome = Returned(<<Word, Num(9, 10)>>)
    /\ presence_calls[2].returned = Half

\* the language model answered the similarity prompt with something float() rejects
SimilarityParseFailure ==
    /\ BothCallsSucceeded
    /\ ~Parsable(provider_calls[2].resp)

\* C13 as stated: a parse failure inside similarity makes similarity yield 0.5,
\* never an exception, whatever the embedding similarity is.
C13_ParseFailureYieldsHalf ==
    SimilarityParseFailure =>
        (analysis_result.semantic_similarity = Half /\ exception = "none")

\* C13 amended: a parse failure inside similarity makes the model similarity 0.5,
\* so similarity yields 0.3 * embeddingSimilarity + 0.35, never an exception.
C13_ParseFailureBlendsHalf ==
    /\ SimilarityParseFailure =>
          /\ analysis_result.semantic_similarity =
                RAdd(RMul(Rat(3, 10), embedding_similarity), Rat(35, 100))
          /\ exception = "none"
    /\ (Len(provider_calls) = 2 /\ provider_calls[2].ok) => pc = "done"

\* embedding 0.9 and an unparsable response: 0.27 + 0.35
C13_Witness ==
    /\ SimilarityParseFailure
    /\ embedding_similarity = Rat(9, 10)
    /\ provider_calls[2].resp = <<Word>>
    /\ analysis_result.semantic_similarity = Rat(62, 100)

\* ------------------------------------------------------------------------
\* FeedbackGenerator (FeedbackSpec)
\* ------------------------------------------------------------------------
\* generate_feedback has returned its FeedbackCreate
FeedbackReturned == pc = "feedback_returned"

FallbackSentence ==
    [text |-> "Bravo pour ton effort ! Tu as obtenu {score}/{max_score} points. Continue à t'améliorer !",
     score |-> analysis_result.raw_score, max_score |-> question.maxScore]

\* C15: feedbackContent of the returned Feedback is never empty, whatever the
\* content-generation call did (returned a text, or failed); when it failed,
\* feedbackContent is the templated sentence with the raw score and the max score.
C15_ContentNeverEmpty ==
    FeedbackReturned =>
        /\ feedback.feedbackContent.text # ""
        /\ ~text_calls[1].ok => feedback.feedbackContent = FallbackSentence

\* C16: when the extraction call fails, the two lists are the fixed defaults
\* whatever the analysis result and the feedback content are.
C16_ExtractionFailureFixedLists ==
    (FeedbackReturned /\ ~text_calls[2].ok) =>
        /\ feedback.suggestedImprovements =
              <<Item("Relire attentivement la question"),
                Item("Ajouter plus de détails dans ta réponse")>>
        /\ feedback.positivePoints =
              <<Item("Tu as fait l'effort de répondre à la question")>>

\* the provider fails on both calls, for an analysis with found and missing elements
C16_Witness ==
    /\ FeedbackReturned
    /\ ~text_calls[1].ok
    /\ ~text_calls[2].ok
    /\ analysis_result.key_elements_missing # <<>>
    /\ analysis_result.key_elements_found # <<>>
    /\ feedback.feedbackContent = FallbackSentence
    /\ Len(feedback.suggestedImprovements) = 2
    /\ Len(feedback.positivePoints) = 1

\* the lines of the extraction response, once stripped
ResponseLines == [k \in 1..Len(text_calls[2].lines) |-> StripLine(text_calls[2].lines[k])]

IsHeaderLine(line) == ~line.dash /\ line.text \in {"SUGGESTIONS:", "POINTS POSITIFS:"}

\* the section active when line k is read: the last header line above it
ActiveSection(lines, k) ==
    LET above == {j \in 1..(k - 1) : IsHeaderLine(lines[j])}
    IN  IF above = {} THEN "None"
        ELSE lines[CHOOSE j \in above : \A h \in above : h <= j].text

\* the "- " lines read under the given header, in order
ItemsUnder(lines, header) ==
    LET idx == SelectSeq([k \in 1..Len(lines) |-> k],
                         LAMBDA k : lines[k].dash /\ ActiveSection(lines, k) = header)
    IN  [n \in 1..Len(idx) |-> Item(lines[idx[n]].text)]

ExtractionAnswered == FeedbackReturned /\ text_calls[2].ok

\* C17: the extraction response is read line by line: a line equal to
\* "SUGGESTIONS:" or "POINTS POSITIFS:" switches the active section, a line starting
\* with "- " is appended to the active section and ignored when none is active; a
\* response of only a SUGGESTIONS: section with two bullets yields those two
\* suggestions and the default positive point.
C17_LineByLineParser ==
    ExtractionAnswered =>
        LET suggestions == ItemsUnder(ResponseLines, "SUGGESTIONS:")
            positives   == ItemsUnder(ResponseLines, "POINTS POSITIFS:")
        IN  /\ suggestions # <<>> => feedback.suggestedImprovements = suggestions
            /\ positives # <<>> => feedback.positivePoints = positives
            /\ text_calls[2].lines = <<Plain("SUGGESTIONS:"), Bullet("s1"), Bullet("s2")>>
                  => /\ feedback.suggestedImprovements = <<Item("s1"), Item("s2")>>
                     /\ Len(feedback.positivePoints) = 1
                     /\ feedback.positivePoints[1].text \in
                           {"Tu as bien mentionné: ",
                            "Tu as fait l'effort de répondre à la question"}

\* sections revisited, a bullet before any header, indented lines
C17_Witness ==
    /\ ExtractionAnswered
    /\ Len(text_calls[2].lines) = 11
    /\ feedback.suggestedImprovements = <<Item("s3")>>
    /\ feedback.positivePoints = <<Item("p1"), Item("p2"), Item("p3")>>

\* only a SUGGESTIONS: section with two bullets
C17_WitnessSuggestionsOnly ==
    /\ ExtractionAnswered
    /\ text_calls[2].lines = <<Plain("SUGGESTIONS:"), Bullet("s1"), Bullet("s2")>>
    /\ feedback.suggestedImprovements = <<Item("s1"), Item("s2")>>
    /\ feedback.positivePoints = <<Item("Tu as fait l'effort de répondre à la question")>>

\* C18: an empty suggestions list is replaced by one default naming up to 2 missing
\* key elements (a generic suggestion when none is missing), an empty positives
\* list by one default naming up to 2 found key elements (a generic one when none
\* was found); neither list of a returned Feedback is empty, and a non-empty parsed
\* list is returned unchanged.
C18_EmptyListsGetDefaults ==
    /\ FeedbackReturned =>
          (feedback.suggestedImprovements # <<>> /\ feedback.positivePoints # <<>>)
    /\ ExtractionAnswered =>
          LET suggestions == ItemsUnder(ResponseLines, "SUGGESTIONS:")
              positives   == ItemsUnder(ResponseLines, "POINTS POSITIFS:")
              missing     == analysis_result.key_elements_missing
              found       == analysis_result.key_elements_found
          IN  /\ suggestions = <<>> =>
                    feedback.suggestedImprovements =
                       IF missing = <<>>
                       THEN <<Item("Développer ta réponse davantage")>>
                       ELSE IF Len(missing) <= 2
                       THEN <<ItemNaming("Ajouter les éléments manquants: ", missing)>>
                       ELSE <<ItemNaming("Ajouter les éléments manquants: ",
                                         <<missing[1], missing[2]>>)>>
              /\ positives = <<>> =>
                    feedback.positivePoints =
                       IF found = <<>>
                       THEN <<Item("Tu as fait l'effort de répondre à la question")>>
                       ELSE IF Len(found) <= 2
                       THEN <<ItemNaming("Tu as bien mentionné: ", found)>>
                       ELSE <<ItemNaming("Tu as bien mentionné: ",
                                         <<found[1], found[2]>>)>>
              /\ suggestions # <<>> => feedback.suggestedImprovements = suggestions
              /\ positives # <<>> => feedback.positivePoints = positives

\* three elements missing, no suggestion extracted: the default names two of them
C18_Witness ==
    /\ ExtractionAnswered
    /\ Len(analysis_result.key_elements_missing) = 3
    /\ ItemsUnder(ResponseLines, "SUGGESTIONS:") = <<>>
    /\ Len(feedback.suggestedImprovements) = 1
    /\ Len(feedback.suggestedImprovements[1].names) = 2
    /\ ItemsUnder(ResponseLines, "POINTS POSITIFS:") = <<Item("p1"), Item("p2")>>
    /\ feedback.positivePoints = <<Item("p1"), Item("p2")>>

\* C19: suggestedImprovements and positivePoints of a returned Feedback each have
\* at most 3 items, whatever the extraction response contains.
C19_AtMostThreeItems ==
    FeedbackReturned =>
        /\ Len(feedback.suggestedImprovements) <= 3
        /\ Len(feedback.positivePoints) <= 3

\* C20: within one generate call the extraction call is issued only after the
\* content-generation call has returned or failed, its prompt carries the content
\* that becomes feedbackContent (the fallback sentence when generation failed), and
\* exactly two text-generation calls are made, in that order, without retry.
C20_TwoCallsInOrder ==
    /\ Len(text_calls) <= 2
    /\ Len(text_calls) >= 1 =>
          /\ text_calls[1].prompt.kind = "content"
          /\ pc \in {"extraction", "feedback_returned"}
    /\ Len(text_calls) = 2 =>
          /\ text_calls[2].prompt.kind = "extraction"
          /\ text_calls[2].prompt.feedback_content =
                IF text_calls[1].ok THEN Content(text_calls[1].text)
                ELSE FallbackSentence
          /\ FeedbackReturned
    /\ FeedbackReturned =>
          /\ Len(text_calls) = 2
          /\ text_calls[2].prompt.feedback_content = feedback.feedbackContent

\* generation failed, the extraction prompt carries the fallback sentence
C20_Witness ==
    /\ FeedbackReturned
    /\ ~text_calls[1].ok
    /\ text_calls[2].ok
    /\ text_calls[2].prompt.feedback_content = FallbackSentence
    /\ feedback.feedbackContent = FallbackSentence

\* ------------------------------------------------------------------------
\* Scenario B (ScenarioSpec), the grammar checker (Spec), number parsing
\* (MatcherSpec)
\* ------------------------------------------------------------------------
\* the weighted sum of the two scores, before the rubric's multiplier
WeightedSum ==
    LET rubric  == answer_template.scoringRubric
        weights == IF "weights" \in rubric.keys THEN rubric.weights
                   ELSE [key_elements |-> Rat(7, 10), grammar |-> Rat(3, 10)]
    IN  RAdd(RMul(analysis_result.key_elements_score, weights.key_elements),
             RMul(analysis_result.grammar_score, weights.grammar))

ScenarioB ==
    /\ Scored
    /\ question.maxScore = 10
    /\ answer_template.minimumScore = Rat(6, 1)
    /\ WeightedSum = Rat(95, 100)

C25_WitnessUnscaled ==
    /\ ScenarioB
    /\ "score_multiplier" \notin answer_template.scoringRubric.keys
    /\ analysis_result.raw_score = Rat(95, 100)
    /\ analysis_result.status = "incorrect"

\* number of deductions the rules make on a text that is not empty
Deductions(text) ==
    (IF Strip(text)[Len(Strip(text))] \in {".", "!", "?"} THEN 0 ELSE 1)
    + (IF Strip(text)[1] \in UpperLetters THEN 0 ELSE 1)
    + (IF WordCount(text) < 3 THEN 1 ELSE 0)

Penalty(text) ==
    (IF Strip(text)[Len(Strip(text))] \in {".", "!", "?"} THEN 0 ELSE 1)
    + (IF Strip(text)[1] \in UpperLetters THEN 0 ELSE 1)
    + (IF WordCount(text) < 3 THEN 2 ELSE 0)

\* C26: for every answer text (empty, whitespace-only or not) and every grade the
\* grammar checker returns without raising a score in [0,1] and a list of issues:
\* empty text gives 0.0 with one issue, otherwise 1.0 minus 0.1 (no final '.', '!',
\* '?'), minus 0.1 (no initial uppercase letter), minus 0.2 (fewer than 3 words),
\* with one issue per deduction.
C26_GrammarCheckerTotal ==
    (grammar_calls # <<>>) =>
        /\ exception # "IndexError"
        /\ pc # "raised" =>
              LET text == grammar_calls[1].text
                  score == analysis_result.grammar_score
                  issues == analysis_result.grammar_issues
              IN  /\ RLeq(Zero, score) /\ RLeq(score, One)
                  /\ IF text = <<>>
                     THEN score = Zero /\ Len(issues) = 1
                     ELSE /\ score = Rat(10 - Penalty(text), 10)
                          /\ Len(issues) = Deductions(text)

\* the first token of the response that is a number, if any
FirstNumber(response) ==
    LET numbers == {k \in 1..Len(response) : response[k].num # None}
    IN  IF numbers = {} THEN None
        ELSE response[CHOOSE k \in numbers : \A j \in numbers : k <= j].num

\* C27: the model-judged similarity is the first floating-point token of the
\* response, whatever precedes or follows it, clamped to [0,1]; 0.5 is used only
\* when the response contains no number.
C27_FirstFloatToken ==
    BothCallsSucceeded =>
        LET v == FirstNumber(provider_calls[2].resp)
            modelSimilarity == IF v = None THEN Half ELSE Clamped(v)
        IN  analysis_result.semantic_similarity =
               RAdd(RMul(Rat(3, 10), embedding_similarity),
                    RMul(Rat(7, 10), modelSimilarity))

\* ------------------------------------------------------------------------
\* Question service (QuestionSpec)
\* ------------------------------------------------------------------------
\* C24: in every reachable state after any sequence of create_question (with or
\* without a template), question generation, update_question and
\* update_answer_template, each stored template has minimumScore <= maxScore of
\* its question
C24_MinimumScoreWithinMaxScore ==
    \A t \in DOMAIN db.templates :
        RLeq(db.templates[t].minimumScore,
             Rat(db.questions[db.templates[t].questionId].maxScore, 1))

\* ------------------------------------------------------------------------
\* Submit workflow (SubmitSpec)
\* ------------------------------------------------------------------------
\* the two submit_answer calls
Calls == {Frame, suspended}

\* the question of the call, or every template of it, is not in the database
LookupFails(f) ==
    /\ f.submit.step # "idle"
    /\ \/ f.submit.answer_in.questionId \notin DOMAIN db.questions
       \/ get_by_question(db.templates, f.submit.answer_in.questionId) = {}

\* C21: when the question or its template is missing, submit_answer reports
\* not-found (404 through the route); analyze and generate are not invoked, no
\* provider is called and no Feedback is stored for the answer
C21_MissingQuestionOrTemplate ==
    \A f \in Calls :
        LookupFails(f) =>
            /\ f.submit.step \in {"create", "question", "templates", "raised"}
            /\ (f.submit.step = "raised") => (f.submit.http = 404)
            /\ f.pc = "idle"
            /\ f.presence_calls = <<>>
            /\ f.grammar_calls = <<>>
            /\ f.provider_calls = <<>>
            /\ f.text_calls = <<>>
            /\ f.feedback = NoFeedback
            /\ \A k \in DOMAIN db.feedbacks :
                  db.feedbacks[k].answerId # f.submit.answer_id

\* a call for question 3, which does not exist, has ended with 404 while the
\* other call, for question 1, has stored its feedback
C21_Witness ==
    /\ submit.step = "raised"
    /\ submit.http = 404
    /\ submit.answer_in.questionId = 3
    /\ suspended.submit.step = "returned"
    /\ Len(db.feedbacks) = 1

\* a call for question 2, which has no template, has ended with 404
C21_WitnessTemplate ==
    /\ submit.step = "raised"
    /\ submit.http = 404
    /\ submit.answer_in.questionId = 2
    /\ submit.answer_id \in DOMAIN db.answers

\* C23: once a Feedback is stored, the answer service changes it only through
\* update_feedback_helpfulness, which sets wasHelpful and leaves answerId,
\* feedbackContent, correctionDetails, suggestedImprovements, positivePoints and
\* feedbackType as they were
C23_OnlyHelpfulnessChanges ==
    [][\A k \in DOMAIN db.feedbacks :
          /\ k \in DOMAIN db'.feedbacks
          /\ db'.feedbacks[k].answerId = db.feedbacks[k].answerId
          /\ db'.feedbacks[k].feedbackContent = db.feedbacks[k].feedbackContent
          /\ db'.feedbacks[k].correctionDetails = db.feedbacks[k].correctionDetails
          /\ db'.feedbacks[k].suggestedImprovements = db.feedbacks[k].suggestedImprovements
          /\ db'.feedbacks[k].positivePoints = db.feedbacks[k].positivePoints
          /\ db'.feedbacks[k].feedbackType = db.feedbacks[k].feedbackType
          /\ (db'.feedbacks[k].wasHelpful # db.feedbacks[k].wasHelpful) =>
                \E v \in HelpfulValues :
                    /\ UpdateFeedbackHelpfulness(k, v)
                    /\ db'.feedbacks[k].wasHelpful = v
      ]_vars

\* a stored feedback was rated helpful, then the other call stored its feedback
C23_Witness ==
    /\ Len(db.feedbacks) = 2
    /\ db.feedbacks[1].wasHelpful = "True"
    /\ db.feedbacks[1].feedbackType # "unset"
    /\ db.feedbacks[1].suggestedImprovements # <<>>
    /\ db.feedbacks[2].wasHelpful = "None"

\* C28: if a Feedback is stored for an answer, the answer's stored answerStatus
\* is not 'pending' and its stored scoreObtained and answerStatus are the score
\* and status of the Feedback's correctionDetails
C28_FeedbackImpliesWriteBack ==
    \A k \in DOMAIN db.feedbacks :
        /\ db.feedbacks[k].answerId \in DOMAIN db.answers
        /\ LET stored == db.answers[db.feedbacks[k].answerId]
               details == db.feedbacks[k].correctionDetails
           IN  /\ stored.answerStatus # "pending"
               /\ stored.scoreObtained = details.score
               /\ stored.answerStatus = details.status

\* both calls have stored their feedback, for answers of different status
C28_Witness ==
    /\ Len(db.feedbacks) = 2
    /\ db.feedbacks[1].answerId # db.feedbacks[2].answerId
    /\ db.answers[db.feedbacks[1].answerId].answerStatus = "excellent"
    /\ db.answers[db.feedbacks[2].answerId].answerStatus \notin {"pending", "excellent"}
    /\ db.answers[db.feedbacks[2].answerId].scoreObtained = Rat(13, 2)

\* the answers stored before position k for the same student and question
StoredBefore(k) ==
    {j \in 1..(k - 1) : /\ db.answers[j].studentId = db.answers[k].studentId
                        /\ db.answers[j].questionId = db.answers[k].questionId}

\* C29: under any interleaving of submit_answer calls, two overlapping calls of
\* one student on one question included, attemptNumber is 1 + the number of
\* answers stored before for that pair, so the attempts of a pair are numbered
\* 1..n without repetition
C29_AttemptNumbersDistinct ==
    /\ \A k \in DOMAIN db.answers :
          db.answers[k].attemptNumber = 1 + Cardinality(StoredBefore(k))
    /\ \A j, k \in DOMAIN db.answers :
          (/\ j # k
           /\ db.answers[j].studentId = db.answers[k].studentId
           /\ db.answers[j].questionId = db.answers[k].questionId)
          => db.answers[j].attemptNumber # db.answers[k].attemptNumber

\* the call has stored its StudentAnswer
AnswerStored(f) == f.submit.step \notin {"idle", "create"}

\* C30: submit_answer stores the new StudentAnswer (status 'pending', score 0.0,
\* attemptNumber set) before it looks up the question and the template; when
\* the lookup or the analysis fails the call raises and the record stays stored,
\* unchanged and 'pending' (so that the next submission of the pair counts it)
C30_PendingRecordSurvivesFailure ==
    \A f \in Calls :
        /\ AnswerStored(f) => f.submit.answer_id \in DOMAIN db.answers
        /\ (AnswerStored(f) /\ f.submit.step \in {"question", "templates", "analyze", "raised"})
              => LET stored == db.answers[f.submit.answer_id]
                 IN  /\ stored.answerStatus = "pending"
                     /\ stored.scoreObtained = Zero
                     /\ stored.attemptNumber = f.submit.previous_attempts + 1
                     /\ stored.answerText = f.submit.answer_in.answerText

\* entry j of the template of call f counts as found, by the literal test (na
\* is the normalized answer) or by what the provider answered to f's own
\* presence prompt for entry j
AloneFound(f, j, na) ==
    \/ Contains(na, normalize_text(f.answer_template.keyElements[j]))
    \/ \E k \in DOMAIN f.presence_calls :
          /\ f.presence_calls[k].index = j
          /\ ElementFound(check_element_presence(f.presence_calls[k].outcome))

RECURSIVE AloneEntries(_, _, _, _)
AloneEntries(f, j, wantFound, na) ==
    IF j > Len(f.answer_template.keyElements) THEN <<>>
    ELSE (IF AloneFound(f, j, na) = wantFound
          THEN <<f.answer_template.keyElements[j]>> ELSE <<>>)
         \o AloneEntries(f, j + 1, wantFound, na)

\* compute_similarity on the answers the two providers gave to call f
AloneSimilarity(f) ==
    IF ~f.provider_calls[1].ok THEN Half
    ELSE IF ~f.provider_calls[2].ok THEN Half
    ELSE final_similarity(f.embedding_similarity,
                          _compute_llm_similarity(f.provider_calls[2].resp))

\* what analyze_answer returns when it runs alone on the inputs of call f and
\* the providers answer as they answered f
AloneAnalysis(f) ==
    LET keys    == f.answer_template.keyElements
        na      == normalize_text(f.student_answer.answerText)
        found   == AloneEntries(f, 1, TRUE, na)
        missing == AloneEntries(f, 1, FALSE, na)
        grammar == IF f.answer_template.requiresGrammarCheck
                   THEN check_grammar(f.student_answer.answerText, f.question.grade)
                   ELSE [raised |-> FALSE, score |-> One, issues |-> <<>>]
        score   == _calculate_score(CoverageScore(found, keys), grammar.score,
                                    f.answer_template.scoringRubric)
        capped  == CappedScore(score, f.question.maxScore)
    IN  [raw_score |-> capped, max_score |-> f.question.maxScore,
         percentage_score |-> Percentage(capped, f.question.maxScore),
         status |-> _determine_status(capped, f.answer_template.minimumScore,
                                      Rat(f.question.maxScore, 1)),
         key_elements_found |-> found, key_elements_missing |-> missing,
         grammar_issues |-> grammar.issues,
         key_elements_score |-> CoverageScore(found, keys),
         grammar_score |-> grammar.score,
         semantic_similarity |-> AloneSimilarity(f)]

\* what generate_feedback returns when it runs alone on that analysis and the
\* provider answers as it answered f
AloneFeedback(f) ==
    LET result   == AloneAnalysis(f)
        elements == FeedbackElements(result)
        content  == IF f.text_calls[1].ok THEN Content(f.text_calls[1].text)
                    ELSE FallbackContent(elements)
        extracted == _extract_suggestions_and_positives(
                        [ok |-> f.text_calls[2].ok, lines |-> f.text_calls[2].lines],
                        elements)
    IN  [feedbackContent |-> content,
         correctionDetails |-> CorrectionDetails(result),
         suggestedImprovements |-> extracted.suggestions,
         positivePoints |-> extracted.positives,
         feedbackType |-> _determine_feedback_type(result.status)]

\* C22: under any interleaving of concurrent analyze and generate invocations
\* on independent inputs, each provider call being a suspension point, every
\* invocation returns what it would return alone with the same provider
\* responses, and its prompts carry its own inputs: the engine holds no state
\* shared between invocations.  Stated of the running call, when analyze_answer
\* and when generate_feedback return to it; a suspended call is as it was when
\* it ran last.
C22_InterleavingIndependence ==
    /\ \A k \in DOMAIN presence_calls :
          /\ presence_calls[k].text = student_answer.answerText
          /\ presence_calls[k].element = key_elements[presence_calls[k].index]
    /\ (pc = "done") => analysis_result = AloneAnalysis(Frame)
    /\ (pc = "feedback_returned") =>
          /\ analysis_result = AloneAnalysis(Frame)
          /\ feedback = AloneFeedback(Frame)

\* the two calls are inside the engine at the same time, on different answers:
\* one is generating its feedback while the other, whose presence check gave
\* another result, waits for the similarity provider
C22_Witness ==
    /\ submit.step = "generate"
    /\ pc = "feedback_returned"
    /\ suspended.submit.step = "analyze"
    /\ suspended.pc = "llm_similarity"
    /\ presence_calls # <<>>
    /\ suspended.presence_calls # <<>>
    /\ analysis_result.key_elements_found # suspended.analysis_result.key_elements_found

====
